---- MODULE Spec2Model ----
(***************************************************************************)
(* Model of the log parser of the Ticket Changesets Viewer extension       *)
(* (src/src/extension.ts).  A JavaScript string is modelled as the         *)
(* sequence of its characters, each a one-character TLA+ string, so that   *)
(* startsWith, trim, includes, join and the two regular expressions of     *)
(* parseSvnLog are computed character by character.  A log text is         *)
(* modelled by the sequence of lines that logOutput.split('\n') yields:    *)
(* every string is the '\n'-join of exactly one non-empty sequence of      *)
(* newline-free lines, so drawing the lines draws the text.  One ReadLine  *)
(* step is one iteration of the for loop of parseSvnLog, lines[i] being    *)
(* drawn when the iteration runs.                                          *)
(***************************************************************************)
EXTENDS Integers, Sequences, FiniteSets, TLC

\* pc                "idle" before a call, "loop" in the for loop, "done" after
\*                   the return
\* ticketId          the ticketId argument of the running call
\* lines             the lines of logOutput read so far, lines[0..i-1]
\* changesets, currentChangeset, inMessage, messageLines
\*                   the locals of parseSvnLog
\* remembered        history: one finished call, with its input and result
VARIABLES pc, ticketId, lines, changesets, currentChangeset, inMessage,
          messageLines, remembered

\* xpc               "idle" before a call of extractChangedFilesFromLog, "loop"
\*                   in its for loop, "done" after its return
\* logOutput         the lines of its logOutput argument read so far
\* inChangedPaths, changedFiles
\*                   the locals of extractChangedFilesFromLog
VARIABLES xpc, logOutput, inChangedPaths, changedFiles

\* rpc               "idle" before a file is selected, "selected" when
\*                   selectedFile is set, "adjusted" after the path adjustment
\* workingDir        the working copy directory of the command
\* selectedFile      the file whose diff is asked for
\* adjustedFilePath  the path given to 'svn cat'
VARIABLES rpc, workingDir, selectedFile, adjustedFilePath

\* ppc               "closed" before the command has shown its panel, "open"
\*                   once the message handler of the panel is registered
\* panelChangesets   the changesets of the command, as the handler sees them
\* command           the command of the message being handled, or "none"
\* dpc               the await the handler is suspended at: "log" ('svn log'),
\*                   "pick" (quick pick), "before" and "after" ('svn cat'),
\*                   or "idle" when no diff action is running
\* revision, prevRevision
\*                   the locals of the openInDiffEditor branch
\* uniqueFiles, lowestRevision, highestRevision
\*                   the locals of the showUnifiedDiff branch
\* tempFiles         the files the running action has written to os.tmpdir(),
\*                   by name
\* retrieved         history: the 'svn cat' invocations of the running action
\*                   that have ended, each with its revision, path and outcome
\* shown             the messages the running action has shown to the user
\* diffEditor        the diff the running action has opened, or Undefined
VARIABLES ppc, panelChangesets, command, dpc, revision, prevRevision,
          uniqueFiles, lowestRevision, highestRevision, tempFiles, retrieved,
          shown, diffEditor

parserVars == <<pc, ticketId, lines, changesets, currentChangeset, inMessage,
                messageLines, remembered>>

extractorVars == <<xpc, logOutput, inChangedPaths, changedFiles>>

resolverVars == <<rpc, workingDir, selectedFile, adjustedFilePath>>

\* containers        the diff containers of the view, by index: shown or hidden
\*                   ('active'), and the text of their .diff element
\* requests          history: the loadDiff messages the view has posted, in the
\*                   order of posting; a request is named by its place here
\* toExtension       the loadDiff messages posted and not yet received
\* running           the requests whose 'svn diff' is awaited
\* toWebview         the diffLoaded messages posted and not yet received
\* posted            history: every diffLoaded message posted
VARIABLES containers, requests, toExtension, running, toWebview, posted

panelVars == <<ppc, panelChangesets, command, dpc, revision, prevRevision,
               uniqueFiles, lowestRevision, highestRevision, tempFiles, retrieved,
               shown, diffEditor>>

viewVars == <<containers, requests, toExtension, running, toWebview, posted>>

\* search            the running of the showChanges command: the await it is
\*                   suspended at (pc), its locals, the external invocations
\*                   it has started (issued), those not yet ended
\*                   (inFlight) and how the ended ones ended (outcomes, in
\*                   order), the directories whose 'svn info' succeeded
\*                   (checked), the messages it has shown
\* summaryDoc        the summary document of the command, or Undefined
\* entries           the changeset entries of the webview's html, in order
\* handlers          the invocations of the message handler of the panel, by
\*                   the order of their messages: each with its command, the
\*                   await it is suspended at (pc), its locals, its external
\*                   invocations (issued, inFlight, outcomes), the messages it has
\*                   shown, the diff editor it has opened and the diffLoaded
\*                   message it has posted
\* tmpdir            the files of os.tmpdir(), by name
VARIABLES search, summaryDoc, entries, handlers, tmpdir

shellVars == <<search, summaryDoc, entries, handlers, tmpdir>>

vars == <<parserVars, extractorVars, resolverVars, panelVars, viewVars, shellVars>>

\* ------------------------------------------------------------------ bounds

\* Longest log text, in lines, that a call of parseSvnLog is given.
MaxLines == 4

\* Longest log text, in lines, in the specification of the longer texts.
MaxLongLines == 5

\* Longest log text, in lines, in the repeated-call specification.
MaxRepeatLines == 3

\* Most messages the handler of the panel receives.
MaxHandlers == 2

\* Lines of a log text in the status-letter specification.
MaxStatusLines == 4

\* Lines of a log text in the segment specification.
MaxSegmentLines == 6

\* ------------------------------------------------------- character classes

Space == {" ", "\t"}

Digit == {"0", "1", "2", "3", "4", "5", "6", "7", "8", "9"}

UpperCase == {"A", "B", "C", "D", "E", "F", "G", "H", "I", "J", "K", "L", "M",
              "N", "O", "P", "Q", "R", "S", "T", "U", "V", "W", "X", "Y", "Z"}

LowerCase == {"a", "b", "c", "d", "e", "f", "g", "h", "i", "j", "k", "l", "m",
              "n", "o", "p", "q", "r", "s", "t", "u", "v", "w", "x", "y", "z"}

\* \w of a JavaScript regular expression.
WordChar == UpperCase \cup LowerCase \cup Digit \cup {"_"}

\* --------------------------------------------------------- string helpers

SetMin(S) == CHOOSE x \in S : \A y \in S : x <= y

SetMax(S) == CHOOSE x \in S : \A y \in S : x >= y

\* The characters of a string.
CharsOf(s) == {s[k] : k \in 1..Len(s)}

\* String.prototype.startsWith
StartsWith(s, prefix) ==
    /\ Len(s) >= Len(prefix)
    /\ SubSeq(s, 1, Len(prefix)) = prefix

\* String.prototype.includes
Includes(s, sub) ==
    \E k \in 0..(Len(s) - Len(sub)) : SubSeq(s, k + 1, k + Len(sub)) = sub

\* String.prototype.trim
Trim(s) ==
    LET keep == {k \in 1..Len(s) : s[k] \notin Space}
    IN  IF keep = {} THEN <<>> ELSE SubSeq(s, SetMin(keep), SetMax(keep))

\* Array.prototype.join
RECURSIVE Join(_, _)
Join(strs, sep) ==
    IF strs = <<>> THEN <<>>
    ELSE IF Len(strs) = 1 THEN strs[1]
    ELSE strs[1] \o sep \o Join(Tail(strs), sep)

\* Last index of the longest run of characters of class cls that starts at
\* index k of s (k - 1 when the run is empty): what a greedy cls* consumes.
RunEnd(s, k, cls) ==
    LET stops == {j \in k..Len(s) : s[j] \notin cls}
    IN  IF stops = {} THEN Len(s) ELSE SetMin(stops) - 1

\* An optional value: Undefined, or Some(v).
Undefined == <<>>

Some(v) == <<v>>

\* JavaScript truthiness of an optional string.
Truthy(opt) == opt # Undefined /\ opt[1] # <<>>

\* --------------------------------------------------- regular expressions

\* /r(\d+)\s+\|\s+(\w+)\s+\|\s+([^|]+)/ tried at start index p; the capture
\* groups, or Undefined.  Every quantified class but the last \s+ is followed
\* by a character outside the class, so only its longest run can match; the
\* last \s+ gives back one character when nothing else is left for [^|]+.
HeaderAt(s, p) ==
    LET d == RunEnd(s, p + 1, Digit)
        a == RunEnd(s, d + 1, Space)
        b == RunEnd(s, a + 2, Space)
        w == RunEnd(s, b + 1, WordChar)
        c == RunEnd(s, w + 1, Space)
        e == RunEnd(s, c + 2, Space)
        f == RunEnd(s, e + 1, CharsOf(s) \ {"|"})
    IN  IF /\ s[p] = "r"
           /\ d >= p + 1
           /\ a >= d + 1 /\ a + 1 <= Len(s) /\ s[a + 1] = "|"
           /\ b >= a + 2
           /\ w >= b + 1
           /\ c >= w + 1 /\ c + 1 <= Len(s) /\ s[c + 1] = "|"
           /\ e >= c + 2
           /\ (f >= e + 1 \/ e >= c + 3)
        THEN Some([revision |-> SubSeq(s, p + 1, d),
                   author   |-> SubSeq(s, b + 1, w),
                   date     |-> IF f >= e + 1 THEN SubSeq(s, e + 1, f)
                                ELSE SubSeq(s, e, e)])
        ELSE Undefined

\* line.match(/r(\d+)\s+\|\s+(\w+)\s+\|\s+([^|]+)/): the leftmost match.
HeaderMatch(s) ==
    LET starts == {p \in 1..Len(s) : HeaderAt(s, p) # Undefined}
    IN  IF starts = {} THEN Undefined ELSE HeaderAt(s, SetMin(starts))

\* /\s*([A-Z])\s+(.+)/ tried at start index p; capture group 2, or Undefined.
FileAt(s, p) ==
    LET q == RunEnd(s, p, Space) + 1
        e == RunEnd(s, q + 1, Space)
    IN  IF /\ q <= Len(s) /\ s[q] \in UpperCase
           /\ e >= q + 1
           /\ (e < Len(s) \/ e >= q + 2)
        THEN Some(IF e < Len(s) THEN SubSeq(s, e + 1, Len(s))
                  ELSE SubSeq(s, e, e))
        ELSE Undefined

\* line.match(/\s*([A-Z])\s+(.+)/): the leftmost match.
FileMatch(s) ==
    LET starts == {p \in 1..Len(s) : FileAt(s, p) # Undefined}
    IN  IF starts = {} THEN Undefined ELSE FileAt(s, SetMin(starts))

\* ------------------------------------------------------------ the parser

\* Width of the separator line tested by parseSvnLog.
SeparatorWidth == 72

\* '------------------------------------------------------------------------'
SepLine == [k \in 1..SeparatorWidth |-> "-"]

\* 'Changed paths:'
ChangedPathsMarker == <<"C", "h", "a", "n", "g", "e", "d", " ", "p", "a", "t", "h", "s", ":">>

\* '   ', the indentation tested before a changed-path line is parsed.
Indent == <<" ", " ", " ">>

\* let currentChangeset: Partial<Changeset> = {}
EmptyChangeset ==
    [revision |-> Undefined, author |-> Undefined, date |-> Undefined,
     message |-> Undefined, files |-> Undefined]

\* `#${ticketId}`
TicketTag(tid) == <<"#">> \o tid

\* FlushAtSeparator without the test for the ticket tag.
FlushAtSeparatorUntested(out, cs, msgLines, tid) ==
    IF Truthy(cs.revision) /\ Len(msgLines) > 0
    THEN Append(out, [cs EXCEPT !.message = Some(Join(msgLines, <<"\n">>))])
    ELSE out

\* The flush made when a separator line is read: the buffer is appended to
\* the result when it has a revision, a message line and the ticket tag.
FlushAtSeparator(out, cs, msgLines, tid) ==
    IF Truthy(cs.revision) /\ Len(msgLines) > 0
    THEN LET msg == Join(msgLines, <<"\n">>)
         IN  IF Includes(msg, TicketTag(tid))
             THEN Append(out, [cs EXCEPT !.message = Some(msg)])
             ELSE out
    ELSE out

\* FlushAtEnd that returns the result without looking at the buffer.
FlushAtEndSkipped(out, cs, msgLines, tid) == out

\* The flush made after the loop, on the buffer that remains.
FlushAtEnd(out, cs, msgLines, tid) ==
    IF Truthy(cs.revision) /\ Len(msgLines) > 0
    THEN LET msg == Join(msgLines, <<"\n">>)
         IN  IF Includes(msg, TicketTag(tid))
             THEN Append(out, [cs EXCEPT !.message = Some(msg)])
             ELSE out
    ELSE out

\* The branch taken for a line that starts with 'r'.
ParseRevisionLine(cs, line) ==
    LET match == HeaderMatch(line)
    IN  IF match # Undefined
        THEN [cs EXCEPT !.revision = Some(match[1].revision),
                        !.author   = Some(match[1].author),
                        !.date     = Some(Trim(match[1].date)),
                        !.files    = Some(<<>>)]
        ELSE cs

\* The branch taken for a line that starts with three spaces;
\* currentChangeset.files?.push does nothing while files is undefined.
ParseChangedFile(cs, line) ==
    LET fileMatch == FileMatch(line)
    IN  IF fileMatch # Undefined /\ cs.files # Undefined
        THEN [cs EXCEPT !.files = Some(Append(cs.files[1], fileMatch[1]))]
        ELSE cs

\* ProcessLine that keeps the buffer when it reads a separator line.
ProcessLineKeepingBuffer(st, line, tid) ==
    IF StartsWith(line, SepLine)
    THEN [st EXCEPT !.changesets = FlushAtSeparator(st.changesets, st.currentChangeset,
                                                    st.messageLines, tid)]
    ELSE IF StartsWith(line, <<"r">>)
    THEN [st EXCEPT !.currentChangeset = ParseRevisionLine(st.currentChangeset, line)]
    ELSE IF StartsWith(line, ChangedPathsMarker)
    THEN [st EXCEPT !.inMessage = FALSE]
    ELSE IF StartsWith(line, Indent)
    THEN [st EXCEPT !.currentChangeset = ParseChangedFile(st.currentChangeset, line)]
    ELSE IF Trim(line) = <<>>
    THEN [st EXCEPT !.inMessage = TRUE]
    ELSE IF st.inMessage
    THEN [st EXCEPT !.messageLines = Append(st.messageLines, Trim(line))]
    ELSE st

\* One iteration of the for loop, on the locals st and the line lines[i].
ProcessLine(st, line, tid) ==
    IF StartsWith(line, SepLine)
    THEN [changesets       |-> FlushAtSeparator(st.changesets, st.currentChangeset,
                                                st.messageLines, tid),
          currentChangeset |-> EmptyChangeset,
          inMessage        |-> FALSE,
          messageLines     |-> <<>>]
    ELSE IF StartsWith(line, <<"r">>)
    THEN [st EXCEPT !.currentChangeset = ParseRevisionLine(st.currentChangeset, line)]
    ELSE IF StartsWith(line, ChangedPathsMarker)
    THEN [st EXCEPT !.inMessage = FALSE]
    ELSE IF StartsWith(line, Indent)
    THEN [st EXCEPT !.currentChangeset = ParseChangedFile(st.currentChangeset, line)]
    ELSE IF Trim(line) = <<>>
    THEN [st EXCEPT !.inMessage = TRUE]
    ELSE IF st.inMessage
    THEN [st EXCEPT !.messageLines = Append(st.messageLines, Trim(line))]
    ELSE st

\* The locals of the running call.
Locals ==
    [changesets |-> changesets, currentChangeset |-> currentChangeset,
     inMessage |-> inMessage, messageLines |-> messageLines]

\* The locals as the declarations at the head of parseSvnLog leave them.
FreshChangesets == <<>>

FreshCurrentChangeset == EmptyChangeset

FreshInMessage == FALSE

\* messageLines kept from the previous call, as a module-level array would be.
StaleMessageLines == messageLines

FreshMessageLines == <<>>

\* --------------------------------------------------------------- inputs

\* The ticket IDs a call is given; the input box accepts digits only.
TicketIds == {<<"1", "0", "0">>, <<"2", "0", "0">>}

HeaderLine == <<"r", "1", "0", " ", "|", " ", "b", "o", "b", " ", "|", " ", "2", "0", "2", "4", " ", "|", " ", "1", " ", "l", "i", "n", "e">>

\* A header whose author is not made of word characters.
DottedAuthorHeaderLine == <<"r", "1", "1", " ", "|", " ", "j", ".", "d", "o", "e", " ", "|", " ", "2", "0", "2", "4", " ", "|", " ", "1", " ", "l", "i", "n", "e">>

FileLineA == <<" ", " ", " ", "A", " ", "/", "t", "r", "u", "n", "k", "/", "a", ".", "t", "x", "t">>

FileLineM == <<" ", " ", " ", "M", " ", "/", "t", "r", "u", "n", "k", "/", "b", ".", "t", "x", "t">>

BlankLine == <<>>

FixesLine100 == <<"f", "i", "x", "e", "s", " ", "#", "1", "0", "0">>

FixesLine200 == <<"f", "i", "x", "e", "s", " ", "#", "2", "0", "0">>

\* A message line that begins with the letter r.
RefsLine100 == <<"r", "e", "f", "s", " ", "#", "1", "0", "0">>

\* The lines a log text is made of.
LogLines ==
    {SepLine, HeaderLine, DottedAuthorHeaderLine, ChangedPathsMarker, FileLineA,
     FileLineM, BlankLine, FixesLine100, FixesLine200, RefsLine100}

\* The lines of the repeated-call specification.
RepeatLines == {SepLine, HeaderLine, BlankLine, FixesLine100}

\* --------------------------------------------------------------- actions

\* The locals of the command before it has run.
FreshSearch ==
    [pc |-> "idle", workingDir |-> Undefined, ticketId |-> Undefined,
     issued |-> <<>>, inFlight |-> {}, outcomes |-> <<>>, checked |-> {},
     shown |-> {}]

\* The handler before it has received its message.
FreshHandler ==
    [command |-> "none", pc |-> "idle", revision |-> <<>>, index |-> -1,
     files |-> <<>>, selectedFile |-> <<>>, adjustedFilePath |-> <<>>,
     oldVersionPath |-> [rev |-> 0, fileNameOnly |-> <<>>],
     newVersionPath |-> [rev |-> 0, fileNameOnly |-> <<>>],
     oldContent |-> Undefined, newContent |-> Undefined,
     issued |-> <<>>, inFlight |-> {}, outcomes |-> <<>>, shown |-> {},
     diffEditor |-> Undefined, posted |-> Undefined]

Init ==
    /\ pc = "idle"
    /\ ticketId = <<>>
    /\ lines = <<>>
    /\ changesets = <<>>
    /\ currentChangeset = EmptyChangeset
    /\ inMessage = FALSE
    /\ messageLines = <<>>
    /\ remembered = Undefined
    /\ xpc = "idle"
    /\ logOutput = <<>>
    /\ inChangedPaths = FALSE
    /\ changedFiles = <<>>
    /\ rpc = "idle"
    /\ workingDir = <<>>
    /\ selectedFile = <<>>
    /\ adjustedFilePath = <<>>
    /\ ppc = "closed"
    /\ panelChangesets = <<>>
    /\ command = "none"
    /\ dpc = "idle"
    /\ revision = <<>>
    /\ prevRevision = 0
    /\ uniqueFiles = <<>>
    /\ lowestRevision = 0
    /\ highestRevision = 0
    /\ tempFiles = <<>>
    /\ retrieved = <<>>
    /\ shown = {}
    /\ diffEditor = Undefined
    /\ containers = <<>>
    /\ requests = <<>>
    /\ toExtension = <<>>
    /\ running = {}
    /\ toWebview = <<>>
    /\ posted = <<>>
    /\ search = FreshSearch
    /\ summaryDoc = Undefined
    /\ entries = <<>>
    /\ handlers = [id \in 1..MaxHandlers |-> FreshHandler]
    /\ tmpdir = <<>>

\* parseSvnLog is called: its locals are declared and initialised.
Call ==
    /\ pc \in {"idle", "done"}
    /\ \E tid \in TicketIds : ticketId' = tid
    /\ lines' = <<>>
    /\ changesets' = FreshChangesets
    /\ currentChangeset' = FreshCurrentChangeset
    /\ inMessage' = FreshInMessage
    /\ messageLines' = FreshMessageLines
    /\ pc' = "loop"
    /\ UNCHANGED <<remembered, extractorVars, resolverVars, panelVars, viewVars>>
    /\ UNCHANGED shellVars

\* One iteration of the loop over the lines of the text.
ReadLine(alphabet, maxLines) ==
    /\ pc = "loop"
    /\ Len(lines) < maxLines
    /\ \E line \in alphabet :
         \E st \in {ProcessLine(Locals, line, ticketId)} :
             /\ lines' = Append(lines, line)
             /\ changesets' = st.changesets
             /\ currentChangeset' = st.currentChangeset
             /\ inMessage' = st.inMessage
             /\ messageLines' = st.messageLines
    /\ UNCHANGED <<pc, ticketId, remembered, extractorVars, resolverVars, panelVars, viewVars>>
    /\ UNCHANGED shellVars

\* The text has no more lines: the remaining buffer is flushed and the
\* result returned.  split('\n') yields at least one line.
Return ==
    /\ pc = "loop"
    /\ Len(lines) >= 1
    /\ changesets' = FlushAtEnd(changesets, currentChangeset, messageLines, ticketId)
    /\ currentChangeset' =
         IF Truthy(currentChangeset.revision) /\ Len(messageLines) > 0
         THEN [currentChangeset EXCEPT !.message = Some(Join(messageLines, <<"\n">>))]
         ELSE currentChangeset
    /\ pc' = "done"
    /\ UNCHANGED <<ticketId, lines, inMessage, messageLines, remembered,
                   extractorVars, resolverVars, panelVars, viewVars>>
    /\ UNCHANGED shellVars

Next == Call \/ ReadLine(LogLines, MaxLines) \/ Return

Spec == Init /\ [][Next]_vars

\* The same calls on texts one line longer: room for a header, a
\* 'Changed paths:' block, the blank line and a message.
NextLong == Call \/ ReadLine(LogLines, MaxLongLines) \/ Return

SpecLong == Init /\ [][NextLong]_vars

\* A finished call is recorded, once, with its input and its result; the
\* calls that follow are compared with it.
Remember ==
    /\ pc = "done"
    /\ remembered = Undefined
    /\ remembered' = Some([logLines |-> lines, ticketId |-> ticketId,
                           changesets |-> changesets])
    /\ pc' = "idle"
    /\ UNCHANGED <<ticketId, lines, changesets, currentChangeset, inMessage,
                   messageLines, extractorVars, resolverVars, panelVars, viewVars>>
    /\ UNCHANGED shellVars

NextRepeat == Call \/ ReadLine(RepeatLines, MaxRepeatLines) \/ Return \/ Remember

SpecRepeat == Init /\ [][NextRepeat]_vars

\* ------------------------------------------- the text, as the claims read it

\* A separator line.
IsSeparator(line) == StartsWith(line, SepLine)

\* A blank line.
IsBlank(line) == Trim(line) = <<>>

\* The lines of the segment being read: those after the last separator.
CurrentSegment ==
    LET seps == {k \in 1..Len(lines) : IsSeparator(lines[k])}
    IN  IF seps = {} THEN lines ELSE SubSeq(lines, SetMax(seps) + 1, Len(lines))

\* Index of the first blank line of a segment, 0 when it has none.
FirstBlank(seg) ==
    LET blanks == {k \in 1..Len(seg) : IsBlank(seg[k])}
    IN  IF blanks = {} THEN 0 ELSE SetMin(blanks)

\* The message lines of a segment: every line after its first blank line.
MessageLinesOf(seg) ==
    IF FirstBlank(seg) = 0 THEN <<>> ELSE SubSeq(seg, FirstBlank(seg) + 1, Len(seg))

\* The lines of a segment before its message: up to the first blank line.
HeadOf(seg) ==
    IF FirstBlank(seg) = 0 THEN seg ELSE SubSeq(seg, 1, FirstBlank(seg) - 1)

\* The commit message of a segment: its message lines, trimmed and joined.
MessageOf(seg) ==
    Join([k \in 1..Len(MessageLinesOf(seg)) |-> Trim(MessageLinesOf(seg)[k])], <<"\n">>)

\* The segment begins with a header line that the header pattern matches.
WellFormedHeader(seg) ==
    seg # <<>> /\ StartsWith(seg[1], <<"r">>) /\ HeaderMatch(seg[1]) # Undefined

\* The step reads a separator line.
SeparatorRead ==
    /\ pc = "loop" /\ pc' = "loop"
    /\ Len(lines') = Len(lines) + 1
    /\ IsSeparator(lines'[Len(lines')])

\* The step reads a line that is no separator.
OrdinaryLineRead ==
    /\ pc = "loop" /\ pc' = "loop"
    /\ Len(lines') = Len(lines) + 1
    /\ ~IsSeparator(lines'[Len(lines')])

\* The step ends the current segment: a separator is read or the text ends.
SegmentFlushed == SeparatorRead \/ (pc = "loop" /\ pc' = "done")

\* The step appends a changeset to the result.
SegmentEmitted == Len(changesets') = Len(changesets) + 1

\* The text is one segment, with or without a separator before and after it.
OneSegment(text) ==
    LET first == IF text # <<>> /\ IsSeparator(text[1]) THEN 2 ELSE 1
        last  == IF Len(text) >= first /\ IsSeparator(text[Len(text)])
                 THEN Len(text) - 1 ELSE Len(text)
    IN  SubSeq(text, first, last)

NoSeparatorIn(seg) == \A k \in 1..Len(seg) : ~IsSeparator(seg[k])

\* ------------------------------------------------------------------- C1

\* C1: every changeset in the result of parseSvnLog has its revision set and
\* a message that contains '#' followed by the ticket ID; and a text of one
\* segment whose message is 'fixes #200', parsed with ticket ID 100, gives an
\* empty result.
C1_EmittedHaveTicketAndRevision ==
    /\ \A k \in 1..Len(changesets) :
          /\ Truthy(changesets[k].revision)
          /\ changesets[k].message # Undefined
          /\ Includes(changesets[k].message[1], TicketTag(ticketId))
    /\ (/\ pc = "done"
        /\ ticketId = <<"1", "0", "0">>
        /\ NoSeparatorIn(OneSegment(lines))
        /\ MessageLinesOf(OneSegment(lines)) = <<FixesLine200>>)
       => changesets = <<>>

\* A call has returned a changeset.
C1_Witness == pc = "done" /\ Len(changesets) >= 1

\* ------------------------------------------------------------------- C2

\* C2: when a segment with a well-formed header ends, it is appended to the
\* result if and only if its commit message, the lines after the blank line,
\* contains '#' followed by the ticket ID.
C2_EmittedIffMessageHasTicket ==
    [][(SegmentFlushed /\ WellFormedHeader(CurrentSegment))
        => (SegmentEmitted <=>
              Includes(MessageOf(CurrentSegment), TicketTag(ticketId)))]_vars

\* ------------------------------------------------------------------- C3

\* A changed-path line: three spaces, a status letter, whitespace, a path.
IsFileLine(line) ==
    /\ StartsWith(line, Indent)
    /\ Len(Trim(line)) >= 3
    /\ Trim(line)[1] \in {"A", "M", "D"}
    /\ Trim(line)[2] \in Space
    /\ Trim(Tail(Trim(line))) # <<>>

\* The path of a changed-path line: what follows the status letter.
PathOf(line) == Trim(Tail(Trim(line)))

\* A line of plain message text: not blank, not indented, no separator, no
\* 'Changed paths:' marker and nothing the header pattern matches.
IsPlainText(line) ==
    /\ ~IsBlank(line)
    /\ ~IsSeparator(line)
    /\ ~StartsWith(line, Indent)
    /\ ~StartsWith(line, ChangedPathsMarker)
    /\ HeaderMatch(line) = Undefined

\* seg is a valid header, 'Changed paths:', file lines up to the blank line
\* at index b, and then a message of plain text that contains the ticket tag.
IsFullSegment(seg, b, tid) ==
    /\ NoSeparatorIn(seg)
    /\ WellFormedHeader(seg)
    /\ Len(seg) >= 5
    /\ seg[2] = ChangedPathsMarker
    /\ b \in 4..(Len(seg) - 1)
    /\ seg[b] = BlankLine
    /\ \A k \in 3..(b - 1) : IsFileLine(seg[k])
    /\ \A k \in (b + 1)..Len(seg) : IsPlainText(seg[k])
    /\ Includes(MessageOf(seg), TicketTag(tid))

\* C3: for a text of one segment made of a valid header, a 'Changed paths:'
\* block of file lines, a blank line and a message that contains the ticket
\* tag, the result is one changeset whose files are the paths of the block,
\* in order and verbatim.
C3_OneSegmentGivesItsFiles ==
    pc = "done" =>
      \A b \in 1..Len(lines) :
        IsFullSegment(OneSegment(lines), b, ticketId)
        => /\ Len(changesets) = 1
           /\ changesets[1].files =
                Some([k \in 1..(b - 3) |-> PathOf(OneSegment(lines)[k + 2])])

\* ------------------------------------------------------------------- C4

\* The segment is a well-formed header, lines up to a blank line, and then a
\* message of plain text.
HasPlainMessage(seg) ==
    /\ WellFormedHeader(seg)
    /\ \A k \in 2..Len(HeadOf(seg)) : HeaderMatch(seg[k]) = Undefined
    /\ \A k \in 1..Len(MessageLinesOf(seg)) : IsPlainText(MessageLinesOf(seg)[k])

\* C4: the message of a changeset appended to the result is the newline-join
\* of every line of its segment after the blank line, each trimmed; stated
\* for the segments whose message is plain text.
C4_MessageIsEveryLine ==
    [][(SegmentFlushed /\ SegmentEmitted /\ HasPlainMessage(CurrentSegment))
        => changesets'[Len(changesets')].message = Some(MessageOf(CurrentSegment))]_vars

\* ------------------------------------------------------------------- C5

\* The parser is inside a changed-paths block: the segment has a
\* 'Changed paths:' line and no blank line after it.
InChangedPathsBlock(seg) ==
    \E k \in 1..Len(seg) :
       /\ StartsWith(seg[k], ChangedPathsMarker)
       /\ \A j \in (k + 1)..Len(seg) : ~IsBlank(seg[j])

\* The segment begins as the log prints it: a well-formed header and then
\* the 'Changed paths:' line.
BeginsWithChangedPaths(seg) ==
    WellFormedHeader(seg) /\ Len(seg) >= 2 /\ seg[2] = ChangedPathsMarker

\* C5: reading a line that begins with three spaces adds a path to files only
\* inside a changed-paths block, and never in message-collection mode; stated
\* for the segments that begin with a header and a 'Changed paths:' line.
C5_IndentedLineAddsOnlyInBlock ==
    [][(/\ OrdinaryLineRead
        /\ BeginsWithChangedPaths(CurrentSegment)
        /\ StartsWith(lines'[Len(lines')], Indent)
        /\ currentChangeset'.files # currentChangeset.files)
        => (InChangedPathsBlock(CurrentSegment) /\ ~inMessage)]_vars

\* ------------------------------------------------------------------- C6

\* The segment begins with a header line, r and a digit, that the header
\* pattern does not match, and no line before its message matches either.
MalformedHeader(seg) ==
    /\ Len(seg) >= 1 /\ Len(seg[1]) >= 2
    /\ seg[1][1] = "r" /\ seg[1][2] \in Digit
    /\ \A k \in 1..Len(HeadOf(seg)) : HeaderMatch(HeadOf(seg)[k]) = Undefined

\* C6: a segment whose header line does not match the header pattern is not
\* appended to the result, whatever its message contains, and the separator
\* that ends it leaves a fresh buffer for the segments after it.
C6_MalformedHeaderNeverEmitted ==
    [][/\ (SegmentFlushed /\ MalformedHeader(CurrentSegment)) => ~SegmentEmitted
       /\ SeparatorRead => /\ currentChangeset' = EmptyChangeset
                           /\ inMessage' = FALSE
                           /\ messageLines' = <<>>]_vars

\* ------------------------------------------------------------------- C7

\* C7: for every text read so far, returning now gives the same result as
\* reading one more separator line and returning then.
C7_TrailingSeparatorChangesNothing ==
    (pc = "loop" /\ Len(lines) >= 1)
    => LET st == ProcessLine(Locals, SepLine, ticketId)
       IN  FlushAtEnd(changesets, currentChangeset, messageLines, ticketId)
             = FlushAtEnd(st.changesets, st.currentChangeset, st.messageLines,
                          ticketId)

\* The text read so far ends in a segment that the final flush emits.
C7_Witness ==
    /\ pc = "loop" /\ Len(lines) >= 1
    /\ Len(FlushAtEnd(changesets, currentChangeset, messageLines, ticketId))
         = Len(changesets) + 1

\* ------------------------------------------------------------------- C8

\* C8: a call on the text and ticket ID of the recorded call returns the
\* recorded result, whatever calls were made in between.
C8_SameInputSameResult ==
    (/\ pc = "done"
     /\ remembered # Undefined
     /\ remembered[1].logLines = lines
     /\ remembered[1].ticketId = ticketId)
    => changesets = remembered[1].changesets

\* The recorded text has been parsed again and a changeset returned.
C8_Witness ==
    /\ pc = "done"
    /\ remembered # Undefined
    /\ remembered[1].logLines = lines
    /\ remembered[1].ticketId = ticketId
    /\ Len(changesets) >= 1

\* ------------------------------------------------------------------- C9

\* The fields of a line, split at the character '|'.
RECURSIVE BarFields(_)
BarFields(s) ==
    LET bars == {k \in 1..Len(s) : s[k] = "|"}
    IN  IF bars = {} THEN <<s>>
        ELSE <<SubSeq(s, 1, SetMin(bars) - 1)>>
               \o BarFields(SubSeq(s, SetMin(bars) + 1, Len(s)))

IsSpaced(field) == field # <<>> /\ field[1] \in Space /\ field[Len(field)] \in Space

\* 'r<digits> | <author> | <date> | <n> lines' with a non-empty author.
IsHeaderForm(line) ==
    LET f == BarFields(line)
    IN  /\ Len(f) = 4
        /\ Len(f[1]) >= 3 /\ f[1][1] = "r" /\ f[1][Len(f[1])] \in Space
        /\ Len(Trim(f[1])) >= 2
        /\ \A k \in 2..Len(Trim(f[1])) : Trim(f[1])[k] \in Digit
        /\ IsSpaced(f[2]) /\ Trim(f[2]) # <<>>
        /\ IsSpaced(f[3]) /\ Trim(f[3]) # <<>>
        /\ f[4] # <<>> /\ f[4][1] \in Space /\ Trim(f[4]) # <<>>

\* C9: once a line of the header form is read, the buffer's revision is its
\* digits, its author the author field and its date the trimmed date field.
C9_HeaderSetsFields ==
    (pc = "loop" /\ Len(lines) >= 1 /\ IsHeaderForm(lines[Len(lines)]))
    => LET f == BarFields(lines[Len(lines)])
       IN  /\ currentChangeset.revision = Some(Tail(Trim(f[1])))
           /\ currentChangeset.author = Some(Trim(f[2]))
           /\ currentChangeset.date = Some(Trim(f[3]))

\* ------------------------------------------------------------------ C10

\* The segment has no changed-paths lines: no 'Changed paths:' marker and no
\* indented line.
NoChangedPaths(seg) ==
    \A k \in 1..Len(seg) :
       ~StartsWith(seg[k], ChangedPathsMarker) /\ ~StartsWith(seg[k], Indent)

\* C10: a segment with a valid header, no changed-paths lines and a message
\* that contains the ticket tag is appended to the result with files defined
\* and empty; every changeset of the result has files defined and a
\* non-empty author.
C10_EmittedWithoutFiles ==
    /\ [][(/\ SegmentFlushed
           /\ WellFormedHeader(CurrentSegment)
           /\ NoChangedPaths(CurrentSegment)
           /\ Includes(MessageOf(CurrentSegment), TicketTag(ticketId)))
          => (/\ SegmentEmitted
              /\ changesets'[Len(changesets')].files = Some(<<>>))]_vars
    /\ [](\A k \in 1..Len(changesets) :
             /\ changesets[k].files # Undefined
             /\ Truthy(changesets[k].author))

\* ------------------------------------------- extractChangedFilesFromLog

\* Longest log text, in lines, that a call of extractChangedFilesFromLog is
\* given.
MaxExtractLines == 4

\* The status letters of the two regular expressions of the extractor.
StatusLetter == {"A", "M", "D"}

\* line.match(/^\s*[AMD]/), as a boolean.
StatusGuard(s) ==
    LET q == RunEnd(s, 1, Space) + 1
    IN  q <= Len(s) /\ s[q] \in StatusLetter

\* /\s*([AMD])\s+\/?(.+)/ with the slash kept in the path: capture group 2
\* of /\s*([AMD])\s+(.+)/.
ChangedPathAtKeepingSlash(s, p) ==
    LET q == RunEnd(s, p, Space) + 1
        e == RunEnd(s, q + 1, Space)
    IN  IF /\ q <= Len(s) /\ s[q] \in StatusLetter
           /\ e >= q + 1
           /\ (e < Len(s) \/ e >= q + 2)
        THEN Some(IF e < Len(s) THEN SubSeq(s, e + 1, Len(s))
                  ELSE SubSeq(s, e, e))
        ELSE Undefined

\* /\s*([AMD])\s+\/*(.+)/: every leading slash that leaves a character for
\* .+ is taken out of capture group 2.
ChangedPathAtStrippingSlashes(s, p) ==
    LET kept == ChangedPathAtKeepingSlash(s, p)
        k == IF kept = Undefined THEN 0 ELSE RunEnd(kept[1], 1, {"/"})
    IN  IF kept = Undefined THEN Undefined
        ELSE IF k >= Len(kept[1]) THEN Some(SubSeq(kept[1], Len(kept[1]), Len(kept[1])))
        ELSE Some(SubSeq(kept[1], k + 1, Len(kept[1])))

\* /\s*([AMD])\s+\/?(.+)/ tried at start index p; capture group 2, or
\* Undefined.  \s* and \s+ take their longest runs; \/? takes the slash that
\* follows when a character is left for .+ and gives it back otherwise; \s+
\* gives back one character when the line ends with the whitespace.
ChangedPathAt(s, p) ==
    LET q == RunEnd(s, p, Space) + 1
        e == RunEnd(s, q + 1, Space)
    IN  IF /\ q <= Len(s) /\ s[q] \in StatusLetter
           /\ e >= q + 1
           /\ (e < Len(s) \/ e >= q + 2)
        THEN Some(IF e + 1 < Len(s) /\ s[e + 1] = "/"
                  THEN SubSeq(s, e + 2, Len(s))
                  ELSE IF e < Len(s) THEN SubSeq(s, e + 1, Len(s))
                  ELSE SubSeq(s, e, e))
        ELSE Undefined

\* line.match(/\s*([AMD])\s+\/?(.+)/): the leftmost match.
ChangedPathMatch(s) ==
    LET starts == {p \in 1..Len(s) : ChangedPathAt(s, p) # Undefined}
    IN  IF starts = {} THEN Undefined ELSE ChangedPathAt(s, SetMin(starts))

\* The prefix that ends a changed-paths block.
Dashes == <<"-", "-", "-">>

\* One iteration of the for loop of extractChangedFilesFromLog, on the
\* locals st and the line lines[i].
ExtractLine(st, rawLine) ==
    LET line == Trim(rawLine)
    IN  IF StartsWith(line, ChangedPathsMarker)
        THEN [st EXCEPT !.inChangedPaths = TRUE]
        ELSE IF ~st.inChangedPaths
        THEN st
        ELSE IF StartsWith(line, Dashes) \/ line = <<>>
        THEN [st EXCEPT !.inChangedPaths = FALSE]
        ELSE IF ~StatusGuard(line)
        THEN st
        ELSE IF ChangedPathMatch(line) # Undefined
        THEN [st EXCEPT !.changedFiles = Append(@, ChangedPathMatch(line)[1])]
        ELSE st

\* The locals of the running call of extractChangedFilesFromLog.
ExtractLocals ==
    [inChangedPaths |-> inChangedPaths, changedFiles |-> changedFiles]

\* '   D /trunk/old.txt'
DeletedLine == <<" ", " ", " ", "D", " ", "/", "t", "r", "u", "n", "k", "/", "o", "l", "d", ".", "t", "x", "t">>

\* '   M /trunk/x/y.cs'
ModifiedLine == <<" ", " ", " ", "M", " ", "/", "t", "r", "u", "n", "k", "/", "x", "/", "y", ".", "c", "s">>

\* '   M //srv/x': a path that begins with two slashes
DoubleSlashLine == <<" ", " ", " ", "M", " ", "/", "/", "s", "r", "v", "/", "x">>

\* '   M /': a change of the repository root
RootLine == <<" ", " ", " ", "M", " ", "/">>

\* '   R /trunk/r.txt': a replaced path, whose status letter is not A, M or D
ReplacedLine == <<" ", " ", " ", "R", " ", "/", "t", "r", "u", "n", "k", "/", "r", ".", "t", "x", "t">>

\* 'Makefile D /q': text that begins with a status letter
ProseLine == <<"M", "a", "k", "e", "f", "i", "l", "e", " ", "D", " ", "/", "q">>

\* 'Changed paths: 2': text that begins with the marker
MarkerWithTail == ChangedPathsMarker \o <<" ", "2">>

\* The lines a single-revision log text is made of.
ExtractLogLines ==
    {SepLine, HeaderLine, ChangedPathsMarker, MarkerWithTail, DeletedLine,
     ModifiedLine, DoubleSlashLine, RootLine, ReplacedLine, ProseLine,
     BlankLine, FixesLine100}

\* extractChangedFilesFromLog is called: its locals are declared and
\* initialised.
ExtractCall ==
    /\ xpc \in {"idle", "done"}
    /\ logOutput' = <<>>
    /\ inChangedPaths' = FALSE
    /\ changedFiles' = <<>>
    /\ xpc' = "loop"
    /\ UNCHANGED <<parserVars, resolverVars, panelVars, viewVars>>
    /\ UNCHANGED shellVars

\* One iteration of the loop over the lines of the text.
ExtractReadLine ==
    /\ xpc = "loop"
    /\ Len(logOutput) < MaxExtractLines
    /\ \E line \in ExtractLogLines :
         \E st \in {ExtractLine(ExtractLocals, line)} :
             /\ logOutput' = Append(logOutput, line)
             /\ inChangedPaths' = st.inChangedPaths
             /\ changedFiles' = st.changedFiles
    /\ UNCHANGED <<xpc, parserVars, resolverVars, panelVars, viewVars>>
    /\ UNCHANGED shellVars

\* The text has no more lines: changedFiles is returned.
ExtractReturn ==
    /\ xpc = "loop"
    /\ Len(logOutput) >= 1
    /\ xpc' = "done"
    /\ UNCHANGED <<logOutput, inChangedPaths, changedFiles, parserVars,
                   resolverVars, panelVars, viewVars>>
    /\ UNCHANGED shellVars

NextExtract == ExtractCall \/ ExtractReadLine \/ ExtractReturn

SpecExtract == Init /\ [][NextExtract]_vars

\* ----------------------------------------------------------- claims C11-C14

\* The text of the example: 'Changed paths:', '   D /trunk/old.txt' and a
\* blank line.
DeletedFileBlock == <<ChangedPathsMarker, DeletedLine, BlankLine>>

\* C11, as stated: extractChangedFilesFromLog applied to the text
\* 'Changed paths:', '   D /trunk/old.txt', blank line returns exactly
\* ["old.txt"].
C11_ReturnsOldTxt ==
    (xpc = "done" /\ logOutput = DeletedFileBlock)
        => changedFiles = << <<"o", "l", "d", ".", "t", "x", "t">> >>

\* C11, amended: extractChangedFilesFromLog applied to that text returns
\* exactly ["trunk/old.txt"]: the status letter, the whitespace and the
\* leading slash are stripped, the folder names of the path are kept.
C11_ReturnsTrunkOldTxt ==
    (xpc = "done" /\ logOutput = DeletedFileBlock)
        => changedFiles = << <<"t", "r", "u", "n", "k", "/", "o", "l", "d", ".", "t", "x", "t">> >>

C11_Witness == xpc = "done" /\ logOutput = DeletedFileBlock

\* A trimmed line of the shape of a changed path: a status letter followed
\* by whitespace.
IsShaped(t) == Len(t) >= 2 /\ t[1] \in StatusLetter /\ t[2] \in Space

\* What follows the status letter of a shaped line and the whitespace after
\* it.
AfterStatus(t) == SubSeq(t, RunEnd(t, 2, Space) + 1, Len(t))

\* A step of the loop of extractChangedFilesFromLog: one more line read.
ExtractLineRead ==
    xpc = "loop" /\ xpc' = "loop" /\ Len(logOutput') = Len(logOutput) + 1

\* The line read by such a step, trimmed.
LineRead == Trim(logOutput'[Len(logOutput')])

\* A shaped line is read inside a changed-paths block.
ShapedLineRead == ExtractLineRead /\ inChangedPaths /\ IsShaped(LineRead)

\* A string less its leading slash, if it has one.
StripOneSlash(r) == IF r # <<>> /\ r[1] = "/" THEN Tail(r) ELSE r

\* A string less its leading slash, if it has one and is longer than it.
StripSlashBeforePath(r) == IF Len(r) >= 2 /\ r[1] = "/" THEN Tail(r) ELSE r

EndsBlock(line) == Trim(line) = <<>> \/ StartsWith(Trim(line), Dashes)

\* The text ends inside a changed-paths block: a 'Changed paths:' line with
\* no blank line and no dash line after it.
EndsInBlock(text) ==
    \E k \in 1..Len(text) :
        /\ Trim(text[k]) = ChangedPathsMarker
        /\ \A j \in (k + 1)..Len(text) : ~EndsBlock(text[j])

\* C13: every path returned by extractChangedFilesFromLog comes from a line
\* inside a changed-paths block (after a 'Changed paths:' line, before the
\* next blank or dash line) whose trimmed content begins with A, M or D
\* followed by whitespace; no other line yields a path.
C13_PathsOnlyFromShapedLinesInBlock ==
    [][(ExtractLineRead /\ changedFiles' # changedFiles)
        => (EndsInBlock(logOutput) /\ IsShaped(LineRead))]_vars

\* A line without the status-letter shape, which does not end a block, is
\* read inside a changed-paths block.
UnshapedLineReadInBlock ==
    /\ ExtractLineRead
    /\ EndsInBlock(logOutput)
    /\ ~IsShaped(LineRead)
    /\ ~EndsBlock(logOutput'[Len(logOutput')])

\* C14: inside a changed-paths block a line without the status-letter shape
\* is skipped and does not end the block: the well-formed lines that follow
\* it before the next blank or dash line are still extracted.
C14_UnshapedLineSkippedBlockGoesOn ==
    [][/\ UnshapedLineReadInBlock => changedFiles' = changedFiles
       /\ (ExtractLineRead /\ EndsInBlock(logOutput) /\ IsShaped(LineRead))
              => Len(changedFiles') = Len(changedFiles) + 1]_vars

\* ------------------------------------------------------ the path adjustment

\* path.basename: the part of p after its last slash, the slashes that end p
\* left out.
Basename(p) ==
    LET names == {k \in 1..Len(p) : p[k] # "/"}
        last  == IF names = {} THEN 0 ELSE SetMax(names)
        cuts  == {k \in 1..last : p[k] = "/"}
        first == IF cuts = {} THEN 1 ELSE SetMax(cuts) + 1
    IN  IF names = {} THEN <<>> ELSE SubSeq(p, first, last)

\* String.prototype.substring(n)
Substring(s, n) == SubSeq(s, n + 1, Len(s))

\* The adjustment with the test startsWith(workingDirName): the slash after
\* the folder name is not asked for.
AdjustFilePathAnyPrefix(file, dir) ==
    LET unslashed == IF StartsWith(file, <<"/">>) THEN Substring(file, 1) ELSE file
        workingDirName == Basename(dir)
    IN  IF StartsWith(unslashed, workingDirName)
        THEN Substring(unslashed, Len(workingDirName) + 1)
        ELSE unslashed

\* The path adjustment made before each 'svn cat': the leading slash and the
\* name of the working copy folder are removed.
AdjustFilePath(file, dir) ==
    LET unslashed == IF StartsWith(file, <<"/">>) THEN Substring(file, 1) ELSE file
        workingDirName == Basename(dir)
    IN  IF StartsWith(unslashed, workingDirName \o <<"/">>)
        THEN Substring(unslashed, Len(workingDirName) + 1)
        ELSE unslashed

\* The working copy directories: /w/trunk, /w/trunk2, /home/u/proj,
\* /w/trunk/, trunk
WorkingDirs ==
    {<<"/", "w", "/", "t", "r", "u", "n", "k">>,
     <<"/", "w", "/", "t", "r", "u", "n", "k", "2">>,
     <<"/", "h", "o", "m", "e", "/", "u", "/", "p", "r", "o", "j">>,
     <<"/", "w", "/", "t", "r", "u", "n", "k", "/">>,
     <<"t", "r", "u", "n", "k">>}

\* '/trunk/src/app.ts'
TrunkAppPath == <<"/", "t", "r", "u", "n", "k", "/", "s", "r", "c", "/", "a", "p", "p", ".", "t", "s">>

\* 'trunk2/src/app.ts': the folder name is the beginning of a longer name
Trunk2AppPath == <<"t", "r", "u", "n", "k", "2", "/", "s", "r", "c", "/", "a", "p", "p", ".", "t", "s">>

\* The paths a diff is asked for.
FilePaths ==
    {TrunkAppPath, Tail(TrunkAppPath), Trunk2AppPath, <<"/">> \o Trunk2AppPath,
     <<"/">> \o TrunkAppPath,
     <<"s", "r", "c", "/", "t", "r", "u", "n", "k", "/", "a", ".", "t", "s">>,
     <<"t", "r", "u", "n", "k">>, <<"/", "t", "r", "u", "n", "k", "/">>,
     <<"t", "r", "u", "n", "k", "/", "t", "r", "u", "n", "k", "/", "a">>,
     <<"/", "p", "r", "o", "j", "/", "a", ".", "t", "s">>,
     <<"/", "b", "r", "a", "n", "c", "h", "e", "s", "/", "b", "/", "a", ".", "t", "s">>,
     <<"/">>, <<"a", ".", "t", "s">>}

\* A file is selected in a working copy.
SelectFile ==
    /\ rpc \in {"idle", "adjusted"}
    /\ \E dir \in WorkingDirs : workingDir' = dir
    /\ \E file \in FilePaths : selectedFile' = file
    /\ adjustedFilePath' = <<>>
    /\ rpc' = "selected"
    /\ UNCHANGED <<parserVars, extractorVars, panelVars, viewVars>>
    /\ UNCHANGED shellVars

\* The path of the selected file is adjusted.
AdjustPath ==
    /\ rpc = "selected"
    /\ adjustedFilePath' = AdjustFilePath(selectedFile, workingDir)
    /\ rpc' = "adjusted"
    /\ UNCHANGED <<workingDir, selectedFile, parserVars, extractorVars,
                   panelVars, viewVars>>
    /\ UNCHANGED shellVars

NextResolve == SelectFile \/ AdjustPath

SpecResolve == Init /\ [][NextResolve]_vars

\* ---------------------------------------------------------------- claim C15

\* n is the last component of the directory dir: a name without a slash,
\* at the start of dir or after a slash, with only slashes after it.
IsLastComponent(n, dir) ==
    \E i \in 1..Len(dir) : \E j \in i..Len(dir) :
        /\ n = SubSeq(dir, i, j)
        /\ "/" \notin CharsOf(n)
        /\ (i = 1 \/ dir[i - 1] = "/")
        /\ \A k \in (j + 1)..Len(dir) : dir[k] = "/"

\* The strings that end s.
SuffixesOf(s) == {SubSeq(s, k, Len(s)) : k \in 1..(Len(s) + 1)}

\* s less exactly one leading slash, when it has one.
WithoutLeadingSlash(s) == IF s # <<>> /\ s[1] = "/" THEN Tail(s) ELSE s

\* The result is the one the rule gives for the root name n.
ResolvedFor(n, raw, result) ==
    LET remaining == WithoutLeadingSlash(raw)
        rests == {r \in SuffixesOf(remaining) : remaining = n \o <<"/">> \o r}
    IN  IF rests # {} THEN result \in rests ELSE result = remaining

\* C15: the path adjustment strips exactly one leading slash and then, with
\* rootName the last component of the working directory, strips 'rootName/'
\* if and only if the remaining path begins with it; '/trunk/src/app.ts' in
\* a working directory that ends in '/trunk' gives 'src/app.ts'.
C15_PathAdjusted ==
    rpc = "adjusted" =>
        /\ \A i \in 1..Len(workingDir) : \A j \in i..Len(workingDir) :
               IsLastComponent(SubSeq(workingDir, i, j), workingDir)
                   => ResolvedFor(SubSeq(workingDir, i, j), selectedFile,
                                  adjustedFilePath)
        /\ (selectedFile = TrunkAppPath
               /\ IsLastComponent(<<"t", "r", "u", "n", "k">>, workingDir))
               => adjustedFilePath = <<"s", "r", "c", "/", "a", "p", "p", ".", "t", "s">>

\* The example has been resolved, in the directory /w/trunk.
C15_Witness ==
    /\ rpc = "adjusted"
    /\ selectedFile = TrunkAppPath
    /\ workingDir = <<"/", "w", "/", "t", "r", "u", "n", "k">>
    /\ adjustedFilePath = <<"s", "r", "c", "/", "a", "p", "p", ".", "t", "s">>

\* ------------------------------------------------- the panel: showUnifiedDiff

\* Most changesets a search finds.
MaxChangesets == 3

\* The value of a decimal digit.
DigitValue ==
    "0" :> 0 @@ "1" :> 1 @@ "2" :> 2 @@ "3" :> 3 @@ "4" :> 4 @@
    "5" :> 5 @@ "6" :> 6 @@ "7" :> 7 @@ "8" :> 8 @@ "9" :> 9

\* parseInt of a string that begins with a digit: the number its leading
\* digits write.
RECURSIVE ParseIntFrom(_, _, _)
ParseIntFrom(s, k, acc) ==
    IF k > Len(s) \/ s[k] \notin Digit THEN acc
    ELSE ParseIntFrom(s, k + 1, 10 * acc + DigitValue[s[k]])

ParseInt(s) == ParseIntFrom(s, 1, 0)

\* String(n) of a natural number.
RECURSIVE NumberToString(_)
NumberToString(n) ==
    LET d == CHOOSE c \in Digit : DigitValue[c] = n % 10
    IN  IF n < 10 THEN <<d>> ELSE NumberToString(n \div 10) \o <<d>>

\* Array.prototype.sort() without a comparator: the numbers in the order of
\* their decimal texts.
RECURSIVE TextBefore(_, _)
TextBefore(s, t) ==
    IF s = <<>> THEN t # <<>>
    ELSE IF t = <<>> THEN FALSE
    ELSE IF s[1] # t[1] THEN DigitValue[s[1]] < DigitValue[t[1]]
    ELSE TextBefore(Tail(s), Tail(t))

RECURSIVE SortAsText(_)
SortAsText(nums) ==
    IF nums = <<>> THEN <<>>
    ELSE LET rest == SortAsText(Tail(nums))
             below == SelectSeq(rest, LAMBDA x : ~TextBefore(NumberToString(nums[1]),
                                                            NumberToString(x)))
             above == SelectSeq(rest, LAMBDA x : TextBefore(NumberToString(nums[1]),
                                                           NumberToString(x)))
         IN  below \o <<nums[1]>> \o above

\* Array.prototype.sort((a, b) => a - b): the numbers in ascending order.
RECURSIVE SortAscending(_)
SortAscending(nums) ==
    IF nums = <<>> THEN <<>>
    ELSE LET rest == SortAscending(Tail(nums))
             below == SelectSeq(rest, LAMBDA x : x <= nums[1])
             above == SelectSeq(rest, LAMBDA x : x > nums[1])
         IN  below \o <<nums[1]>> \o above

\* The files of the changesets css, in order, one after the other.
RECURSIVE AllFiles(_)
AllFiles(css) ==
    IF css = <<>> THEN <<>> ELSE css[1].files \o AllFiles(Tail(css))

\* OfferedPath that puts the name of the branch before every path.
OfferedPathInBranch(file) == <<"/", "t", "r", "u", "n", "k">> \o file

\* What the handler adds to allChangedFiles for a file of a changeset.
OfferedPath(file) ==
    IF ChangedPathMatch(file) # Undefined THEN ChangedPathMatch(file)[1] ELSE file

\* Array.from of the Set the strs are added to: each string once, in the
\* order of its first insertion.
RECURSIVE InsertionOrder(_, _)
InsertionOrder(strs, seen) ==
    IF strs = <<>> THEN seen
    ELSE IF \E k \in 1..Len(seen) : seen[k] = strs[1]
    THEN InsertionOrder(Tail(strs), seen)
    ELSE InsertionOrder(Tail(strs), Append(seen, strs[1]))

\* uniqueFiles of the showUnifiedDiff branch.
UniqueFilesOf(css) ==
    LET files == AllFiles(css)
    IN  InsertionOrder([k \in 1..Len(files) |-> OfferedPath(files[k])], <<>>)

\* revisionsWithFile of the showUnifiedDiff branch.
RevisionsWithFile(css, file) ==
    LET touching == SelectSeq(css, LAMBDA cs :
                        \E k \in 1..Len(cs.files) : Includes(cs.files[k], file))
    IN  SortAscending([k \in 1..Len(touching) |-> ParseInt(touching[k].revision)])

\* The revisions of the changesets a search finds.
PanelRevisions == {<<"9">>, <<"1", "0">>, <<"1", "5">>, <<"2", "0">>}

\* '/a.txt'
PathA == <<"/", "a", ".", "t", "x", "t">>

\* '/d/a.txt'
PathDA == <<"/", "d", "/", "a", ".", "t", "x", "t">>

\* '/READ ME.txt'
PathReadMe == <<"/", "R", "E", "A", "D", " ", "M", "E", ".", "t", "x", "t">>

\* The file lists of the changesets a search finds.
PanelFileLists == {<<>>, <<PathA>>, <<PathDA>>, <<PathA, PathReadMe>>}

\* The working copy directories of the panel: /w/trunk, /w/d
PanelWorkingDirs ==
    {<<"/", "w", "/", "t", "r", "u", "n", "k">>, <<"/", "w", "/", "d">>}

\* The changesets the handler of the panel is registered with: at least
\* one, sorted by revision, the newest first.
PanelChangesetSeqs ==
    LET recs == [revision : PanelRevisions, files : PanelFileLists]
    IN  {css \in UNION {[1..n -> recs] : n \in 1..MaxChangesets} :
            \A k \in 1..(Len(css) - 1) :
                ParseInt(css[k].revision) > ParseInt(css[k + 1].revision)}

\* The name of a temp file: path.join(os.tmpdir(), `r${rev}_${fileName}`)
TempPath(rev, fileName) == [rev |-> rev, fileNameOnly |-> fileName]

\* fs.writeFileSync(name, content)
WriteFile(files, name, content) ==
    [n \in DOMAIN files \cup {name} |-> IF n = name THEN content ELSE files[n]]

\* The stdout of 'svn cat -r rev "path"' when the command succeeds.
ContentAt(rev, path) == <<"content", rev, path>>

\* The content written when the before side cannot be read: ''
EmptyContent == <<>>

\* The text of a diff container before its diff is loaded.
LoadingText == <<"Loading diff...">>

\* The command has parsed and sorted its changesets, shown the panel and
\* registered the message handler.
OpenPanel(found, dirs) ==
    /\ ppc = "closed"
    /\ \E css \in found :
         /\ panelChangesets' = css
         /\ containers' = [index \in 0..(Len(css) - 1) |->
                              [active |-> FALSE, text |-> LoadingText]]
    /\ \E dir \in dirs : workingDir' = dir
    /\ ppc' = "open"
    /\ UNCHANGED <<command, dpc, revision, prevRevision, uniqueFiles,
                   lowestRevision, highestRevision, tempFiles, retrieved, shown,
                   diffEditor, rpc, selectedFile, adjustedFilePath, parserVars,
                   extractorVars, requests, toExtension, running, toWebview, posted>>
    /\ UNCHANGED shellVars

\* The same branch with the span begun at the first revision that has the
\* file, not at the revision before it.
PlanUnifiedDiffFromFirst(file, messages) ==
    LET revisionsWithFile == RevisionsWithFile(panelChangesets, file)
    IN  /\ selectedFile' = file
        /\ IF Len(revisionsWithFile) = 0
           THEN /\ shown' = messages \cup {"warning: Could not find revisions"}
                /\ dpc' = "done"
                /\ UNCHANGED <<lowestRevision, highestRevision, adjustedFilePath>>
           ELSE /\ lowestRevision' = revisionsWithFile[1]
                /\ highestRevision' = revisionsWithFile[Len(revisionsWithFile)]
                /\ adjustedFilePath' = AdjustFilePath(file, workingDir)
                /\ shown' = messages
                /\ dpc' = "before"

\* The showUnifiedDiff branch from the selection of the file to the first
\* 'svn cat': the span of revisions, the adjusted path.
PlanUnifiedDiff(file, messages) ==
    LET revisionsWithFile == RevisionsWithFile(panelChangesets, file)
    IN  /\ selectedFile' = file
        /\ IF Len(revisionsWithFile) = 0
           THEN /\ shown' = messages \cup {"warning: Could not find revisions"}
                /\ dpc' = "done"
                /\ UNCHANGED <<lowestRevision, highestRevision, adjustedFilePath>>
           ELSE /\ lowestRevision' = revisionsWithFile[1] - 1
                /\ highestRevision' = revisionsWithFile[Len(revisionsWithFile)]
                /\ adjustedFilePath' = AdjustFilePath(file, workingDir)
                /\ shown' = messages
                /\ dpc' = "before"

\* The locals of the showUnifiedDiff branch that are set after the file is
\* selected, before they are.
FreshUnifiedLocals ==
    /\ selectedFile' = <<>>
    /\ lowestRevision' = 0
    /\ highestRevision' = 0
    /\ adjustedFilePath' = <<>>

\* A showUnifiedDiff message arrives: the files of all changesets are
\* collected; with one file the branch goes on to the first 'svn cat', with
\* more it waits for the quick pick.
ShowUnifiedDiff ==
    /\ ppc = "open"
    /\ dpc \in {"idle", "done"}
    /\ command' = "showUnifiedDiff"
    /\ uniqueFiles' = UniqueFilesOf(panelChangesets)
    /\ tempFiles' = <<>>
    /\ retrieved' = <<>>
    /\ diffEditor' = Undefined
    /\ revision' = <<>>
    /\ prevRevision' = 0
    /\ changedFiles' = <<>>
    /\ IF Len(uniqueFiles') = 0
       THEN /\ shown' = {"warning: No files found"}
            /\ dpc' = "done"
            /\ FreshUnifiedLocals
       ELSE IF Len(uniqueFiles') > 1
       THEN /\ shown' = {}
            /\ dpc' = "pick"
            /\ FreshUnifiedLocals
       ELSE PlanUnifiedDiff(uniqueFiles'[1], {})
    /\ UNCHANGED <<ppc, panelChangesets, rpc, workingDir, xpc, logOutput,
                   inChangedPaths, parserVars, viewVars>>
    /\ UNCHANGED shellVars

\* The quick pick of showUnifiedDiff is answered: with a file, or cancelled.
UnifiedPick ==
    /\ command = "showUnifiedDiff"
    /\ dpc = "pick"
    /\ \/ \E k \in 1..Len(uniqueFiles) : PlanUnifiedDiff(uniqueFiles[k], shown)
       \/ /\ dpc' = "done"
          /\ UNCHANGED <<selectedFile, lowestRevision, highestRevision,
                         adjustedFilePath, shown>>
    /\ UNCHANGED <<ppc, panelChangesets, command, revision, prevRevision,
                   uniqueFiles, tempFiles, retrieved, diffEditor, rpc, workingDir,
                   parserVars, extractorVars, viewVars>>
    /\ UNCHANGED shellVars

\* What is written to the old temp file with the error of a failed
\* 'svn cat' taken for its output.
OldContentOrError(ok, rev, path) ==
    IF ok THEN ContentAt(rev, path) ELSE <<"svn: E160013", rev, path>>

\* What is written to the old temp file when 'svn cat' of the before side
\* has ended: its output, or '' when it failed.
OldContent(ok, rev, path) ==
    IF ok THEN ContentAt(rev, path) ELSE EmptyContent

\* The diff editor opened whether or not 'svn cat' of the after side has
\* succeeded, an empty file standing for the output of a failed one.
DiffEditorAfterEither(ok, old, new) ==
    Some([old |-> old, new |-> IF ok THEN new ELSE EmptyContent])

\* The diff editor when 'svn cat' of the after side has ended: opened on
\* the contents of the two temp files, or not opened when it failed.
DiffEditorAfter(ok, old, new) ==
    IF ok THEN Some([old |-> old, new |-> new]) ELSE Undefined

\* 'svn cat' of the lowest revision ends: its output, or nothing when it
\* failed, is written to the old temp file, and 'svn cat' of the highest
\* revision is started.
UnifiedBeforeDone ==
    /\ command = "showUnifiedDiff"
    /\ dpc = "before"
    /\ \E ok \in BOOLEAN :
         /\ tempFiles' = WriteFile(tempFiles,
                                   TempPath(lowestRevision, Basename(adjustedFilePath)),
                                   OldContent(ok, lowestRevision, adjustedFilePath))
         /\ retrieved' = Append(retrieved, [rev |-> lowestRevision,
                                            path |-> adjustedFilePath, ok |-> ok])
    /\ dpc' = "after"
    /\ UNCHANGED <<ppc, panelChangesets, command, revision, prevRevision,
                   uniqueFiles, lowestRevision, highestRevision, shown,
                   diffEditor, resolverVars, parserVars, extractorVars, viewVars>>
    /\ UNCHANGED shellVars

\* 'svn cat' of the highest revision ends: its output is written to the new
\* temp file and the diff editor opened on the two files, or the error is
\* shown.
UnifiedAfterDone ==
    /\ command = "showUnifiedDiff"
    /\ dpc = "after"
    /\ \E ok \in BOOLEAN :
         /\ tempFiles' =
              IF ok
              THEN WriteFile(tempFiles,
                             TempPath(highestRevision, Basename(adjustedFilePath)),
                             ContentAt(highestRevision, adjustedFilePath))
              ELSE tempFiles
         /\ retrieved' = Append(retrieved, [rev |-> highestRevision,
                                            path |-> adjustedFilePath, ok |-> ok])
         /\ diffEditor' =
              DiffEditorAfter(ok,
                  tempFiles'[TempPath(lowestRevision, Basename(adjustedFilePath))],
                  ContentAt(highestRevision, adjustedFilePath))
         /\ shown' = IF ok THEN shown
                     ELSE shown \cup {"error: Error creating unified diff"}
    /\ dpc' = "done"
    /\ UNCHANGED <<ppc, panelChangesets, command, revision, prevRevision,
                   uniqueFiles, lowestRevision, highestRevision, resolverVars,
                   parserVars, extractorVars, viewVars>>
    /\ UNCHANGED shellVars

NextUnified ==
    \/ OpenPanel(PanelChangesetSeqs, PanelWorkingDirs)
    \/ ShowUnifiedDiff \/ UnifiedPick \/ UnifiedBeforeDone \/ UnifiedAfterDone

SpecUnified == Init /\ [][NextUnified]_vars

\* ----------------------------------------------------------- claims C16-C17

\* The revisions, as numbers, of the changesets that have a file path
\* containing the target path.
MatchingRevisions(css, target) ==
    {ParseInt(css[k].revision) : k \in
        {i \in 1..Len(css) : \E j \in 1..Len(css[i].files) :
                                 Includes(css[i].files[j], target)}}

\* The showUnifiedDiff branch has computed its span and not yet ended.
SpanProduced == command = "showUnifiedDiff" /\ dpc \in {"before", "after"}

UnifiedWarnings == {"warning: No files found", "warning: Could not find revisions"}

\* The showUnifiedDiff branch is past the choice of its target path.
TargetSettled == command = "showUnifiedDiff" /\ dpc # "pick"

MaxRequests == 2

\* The changesets of the view: revisions 10, 15 and 20, each with its one
\* file.
ViewChangesetSeqs ==
    {css \in PanelChangesetSeqs :
        \A k \in 1..Len(css) : /\ css[k].files = <<PathA>>
                               /\ css[k].revision # <<"9">>}

\* The working copy directory of the view: /w/trunk
ViewWorkingDirs == {<<"/", "w", "/", "t", "r", "u", "n", "k">>}

\* The stdout of 'svn diff -c revision' when the command succeeds.
DiffOf(rev) == <<"diff -c", rev>>

\* The text sent when 'svn diff -c revision' fails.
ErrorTextOf(rev) == <<"Error loading diff: ", rev>>

\* The diffLoaded message with the index and the revision of the loadDiff
\* message received last, not of the message being answered.
AnswerForLatest(id, ok) ==
    LET message == requests[Len(requests)]
    IN  [request |-> id,
         command |-> "diffLoaded",
         diff    |-> IF ok THEN DiffOf(message.revision)
                     ELSE ErrorTextOf(message.revision),
         index   |-> message.index]

\* The diffLoaded message the handler posts for the loadDiff message id,
\* whose 'svn diff' has succeeded (ok) or failed.
AnswerFor(id, ok) ==
    LET message == requests[id]
    IN  [request |-> id,
         command |-> "diffLoaded",
         diff    |-> IF ok THEN DiffOf(message.revision)
                     ELSE ErrorTextOf(message.revision),
         index   |-> message.index]

\* toggleDiff(revision, index) of the view: the container is hidden, or it
\* is shown and, while it still has its first text, a loadDiff message is
\* posted.
ToggleDiff ==
    /\ ppc = "open"
    /\ \E index \in DOMAIN containers :
         IF containers[index].active
         THEN /\ containers' = [containers EXCEPT ![index].active = FALSE]
              /\ UNCHANGED <<requests, toExtension>>
         ELSE /\ containers' = [containers EXCEPT ![index].active = TRUE]
              /\ IF containers[index].text = LoadingText
                 THEN /\ Len(requests) < MaxRequests
                      /\ requests' = Append(requests,
                             [command  |-> "loadDiff",
                              revision |-> panelChangesets[index + 1].revision,
                              index    |-> index])
                      /\ toExtension' = Append(toExtension, Len(requests) + 1)
                 ELSE UNCHANGED <<requests, toExtension>>
    /\ UNCHANGED <<running, toWebview, posted, panelVars, resolverVars,
                   parserVars, extractorVars>>
    /\ UNCHANGED shellVars

\* The handler receives a loadDiff message and starts 'svn diff'.
LoadDiff ==
    /\ toExtension # <<>>
    /\ running' = running \cup {Head(toExtension)}
    /\ toExtension' = Tail(toExtension)
    /\ UNCHANGED <<containers, requests, toWebview, posted, panelVars,
                   resolverVars, parserVars, extractorVars>>
    /\ UNCHANGED shellVars

\* One 'svn diff' ends, with its output or with an error, and the handler
\* posts the diffLoaded message.
DiffDone ==
    /\ \E id \in running : \E ok \in BOOLEAN :
         /\ running' = running \ {id}
         /\ toWebview' = Append(toWebview, AnswerFor(id, ok))
         /\ posted' = Append(posted, AnswerFor(id, ok))
    /\ UNCHANGED <<containers, requests, toExtension, panelVars, resolverVars,
                   parserVars, extractorVars>>
    /\ UNCHANGED shellVars

\* The listener of the view receives a diffLoaded message and sets the text
\* of the container of its index.
DiffLoaded ==
    /\ toWebview # <<>>
    /\ containers' = [containers EXCEPT ![Head(toWebview).index].text =
                                            Head(toWebview).diff]
    /\ toWebview' = Tail(toWebview)
    /\ UNCHANGED <<requests, toExtension, running, posted, panelVars,
                   resolverVars, parserVars, extractorVars>>
    /\ UNCHANGED shellVars

NextView ==
    \/ OpenPanel(ViewChangesetSeqs, ViewWorkingDirs)
    \/ ToggleDiff
    \/ LoadDiff
    \/ DiffDone
    \/ DiffLoaded

SpecView == Init /\ [][NextView]_vars

\* ---------------------------------------------------------------- claim C18

\* The loadDiff message id is posted and its 'svn diff' has not ended.
Outstanding(id) ==
    id \in running \/ \E k \in 1..Len(toExtension) : toExtension[k] = id

\* The places in posted of the diffLoaded messages that answer request id.
AnswersTo(id) == {k \in 1..Len(posted) : posted[k].request = id}

\* A step of the listener of the view: it takes the first diffLoaded message.
ListenerStep == toWebview # <<>> /\ toWebview' = Tail(toWebview)

\* C18: every loadDiff request (revision, index) is answered by exactly one
\* diffLoaded message with the same index, carrying the diff of the request's
\* revision or the error text, in whatever order the 'svn diff' invocations
\* end; each response is applied to the container of its own index only.
C18_OneAnswerPerRequestSameIndex ==
    /\ [](\A id \in 1..Len(requests) :
            /\ Cardinality(AnswersTo(id)) = IF Outstanding(id) THEN 0 ELSE 1
            /\ requests[id].revision = panelChangesets[requests[id].index + 1].revision
            /\ \A k \in AnswersTo(id) :
                   /\ posted[k].index = requests[id].index
                   /\ posted[k].diff \in {DiffOf(requests[id].revision),
                                          ErrorTextOf(requests[id].revision)})
    /\ [][ListenerStep =>
            /\ containers'[Head(toWebview).index].text = Head(toWebview).diff
            /\ \A index \in DOMAIN containers :
                   index # Head(toWebview).index
                       => containers'[index] = containers[index]]_vars

\* Two requests were outstanding together, the second was answered first,
\* one with its diff and one with the error text, and both answers have
\* reached their containers.
C18_Witness ==
    /\ Len(posted) = 2
    /\ posted[1].request = 2
    /\ posted[2].request = 1
    /\ requests[1].index # requests[2].index
    /\ toWebview = <<>>
    /\ containers[requests[1].index].text = DiffOf(requests[1].revision)
    /\ containers[requests[2].index].text = ErrorTextOf(requests[2].revision)

\* ---------------------------------------------- the panel: openInDiffEditor

\* extractChangedFilesFromLog on a whole text: the locals after the loop
\* over the lines text[from..], begun with the locals st.
RECURSIVE ExtractFrom(_, _, _)
ExtractFrom(st, text, from) ==
    IF from > Len(text) THEN st
    ELSE CHOOSE result \in {ExtractFrom(next, text, from + 1) :
                               next \in {ExtractLine(st, text[from])}} : TRUE

ExtractChangedFilesFromLog(text) ==
    ExtractFrom([inChangedPaths |-> FALSE, changedFiles |-> <<>>], text, 1).changedFiles

\* The outputs of 'svn log -v -c revision': a revision without changed
\* paths, with one and with two.
RevisionLogs ==
    {<<SepLine, HeaderLine, BlankLine, FixesLine100, SepLine>>,
     <<SepLine, HeaderLine, ChangedPathsMarker, DeletedLine, BlankLine,
       FixesLine100, SepLine>>,
     <<SepLine, HeaderLine, ChangedPathsMarker, ModifiedLine, FileLineA, BlankLine,
       FixesLine100, SepLine>>}

\* The openInDiffEditor branch from the selection of the file to the first
\* 'svn cat': the previous revision, the adjusted path.
StartOpenDiff(file) ==
    /\ selectedFile' = file
    /\ prevRevision' = ParseInt(revision) - 1
    /\ adjustedFilePath' = AdjustFilePath(file, workingDir)
    /\ dpc' = "before"

\* An openInDiffEditor message arrives, with the revision of a changeset:
\* 'svn log -v -c revision' is started.
OpenInDiffEditor ==
    /\ ppc = "open"
    /\ dpc \in {"idle", "done"}
    /\ command' = "openInDiffEditor"
    /\ \E k \in 1..Len(panelChangesets) : revision' = panelChangesets[k].revision
    /\ tempFiles' = <<>>
    /\ retrieved' = <<>>
    /\ shown' = {}
    /\ diffEditor' = Undefined
    /\ dpc' = "log"
    /\ changedFiles' = <<>>
    /\ selectedFile' = <<>>
    /\ prevRevision' = 0
    /\ adjustedFilePath' = <<>>
    /\ uniqueFiles' = <<>>
    /\ lowestRevision' = 0
    /\ highestRevision' = 0
    /\ UNCHANGED <<ppc, panelChangesets, rpc, workingDir, xpc, logOutput,
                   inChangedPaths, parserVars, viewVars>>
    /\ UNCHANGED shellVars

\* 'svn log -v -c revision' ends.  When it failed the error is shown; else
\* the changed files are extracted from its output: with none a warning is
\* shown, with one the branch goes on to the first 'svn cat', with more it
\* waits for the quick pick.
OpenLogDone ==
    /\ command = "openInDiffEditor"
    /\ dpc = "log"
    /\ \/ /\ shown' = shown \cup {"error: Error opening diff"}
          /\ dpc' = "done"
          /\ UNCHANGED <<changedFiles, selectedFile, prevRevision, adjustedFilePath>>
       \/ \E fileListOutput \in RevisionLogs :
            /\ changedFiles' = ExtractChangedFilesFromLog(fileListOutput)
            /\ IF Len(changedFiles') = 0
               THEN /\ shown' = shown \cup {"warning: No changed files found"}
                    /\ dpc' = "done"
                    /\ UNCHANGED <<selectedFile, prevRevision, adjustedFilePath>>
               ELSE IF Len(changedFiles') > 1
               THEN /\ dpc' = "pick"
                    /\ UNCHANGED <<shown, selectedFile, prevRevision, adjustedFilePath>>
               ELSE /\ StartOpenDiff(changedFiles'[1])
                    /\ UNCHANGED shown
    /\ UNCHANGED <<ppc, panelChangesets, command, revision, uniqueFiles,
                   lowestRevision, highestRevision, tempFiles, retrieved,
                   diffEditor, rpc, workingDir, xpc, logOutput, inChangedPaths,
                   parserVars, viewVars>>
    /\ UNCHANGED shellVars

\* The quick pick of openInDiffEditor is answered: with a file, or cancelled.
OpenPick ==
    /\ command = "openInDiffEditor"
    /\ dpc = "pick"
    /\ \/ \E k \in 1..Len(changedFiles) : StartOpenDiff(changedFiles[k])
       \/ /\ dpc' = "done"
          /\ UNCHANGED <<selectedFile, prevRevision, adjustedFilePath>>
    /\ UNCHANGED <<ppc, panelChangesets, command, revision, uniqueFiles,
                   lowestRevision, highestRevision, tempFiles, retrieved, shown,
                   diffEditor, rpc, workingDir, parserVars, extractorVars, viewVars>>
    /\ UNCHANGED shellVars

\* 'svn cat' of the previous revision ends: its output, or nothing when it
\* failed, is written to the old temp file, and 'svn cat' of the revision is
\* started.
OpenBeforeDone ==
    /\ command = "openInDiffEditor"
    /\ dpc = "before"
    /\ \E ok \in BOOLEAN :
         /\ tempFiles' = WriteFile(tempFiles,
                                   TempPath(prevRevision, Basename(selectedFile)),
                                   OldContent(ok, prevRevision, adjustedFilePath))
         /\ retrieved' = Append(retrieved, [rev |-> prevRevision,
                                            path |-> adjustedFilePath, ok |-> ok])
    /\ dpc' = "after"
    /\ UNCHANGED <<ppc, panelChangesets, command, revision, prevRevision,
                   uniqueFiles, lowestRevision, highestRevision, shown,
                   diffEditor, resolverVars, parserVars, extractorVars, viewVars>>
    /\ UNCHANGED shellVars

\* 'svn cat' of the revision ends: its output is written to the new temp
\* file and the diff editor opened on the two files, or the error is shown
\* and the branch returns.
OpenAfterDone ==
    /\ command = "openInDiffEditor"
    /\ dpc = "after"
    /\ \E ok \in BOOLEAN :
         /\ tempFiles' =
              IF ok
              THEN WriteFile(tempFiles,
                             TempPath(ParseInt(revision), Basename(selectedFile)),
                             ContentAt(ParseInt(revision), adjustedFilePath))
              ELSE tempFiles
         /\ retrieved' = Append(retrieved, [rev |-> ParseInt(revision),
                                            path |-> adjustedFilePath, ok |-> ok])
         /\ diffEditor' =
              DiffEditorAfter(ok,
                  tempFiles'[TempPath(prevRevision, Basename(selectedFile))],
                  ContentAt(ParseInt(revision), adjustedFilePath))
         /\ shown' = IF ok THEN shown
                     ELSE shown \cup {"error: Error getting revision of file"}
    /\ dpc' = "done"
    /\ UNCHANGED <<ppc, panelChangesets, command, revision, prevRevision,
                   uniqueFiles, lowestRevision, highestRevision, resolverVars,
                   parserVars, extractorVars, viewVars>>
    /\ UNCHANGED shellVars

\* The changesets of the diff actions: those of at most two revisions.
DiffChangesetSeqs == {css \in PanelChangesetSeqs : Len(css) <= 2}

\* The diff actions of the panel, one at a time.
NextDiff ==
    \/ OpenPanel(DiffChangesetSeqs, PanelWorkingDirs)
    \/ ShowUnifiedDiff
    \/ UnifiedPick
    \/ UnifiedBeforeDone
    \/ UnifiedAfterDone
    \/ OpenInDiffEditor
    \/ OpenLogDone
    \/ OpenPick
    \/ OpenBeforeDone
    \/ OpenAfterDone

SpecDiff == Init /\ [][NextDiff]_vars

\* ----------------------------------------------------------- claims C19-C20

\* One of the two diff actions is running or has run last.
DiffAction == command \in {"openInDiffEditor", "showUnifiedDiff"}

\* The 'svn cat' of the before side of the action has ended and failed.
BeforeFailed == DiffAction /\ Len(retrieved) >= 1 /\ ~retrieved[1].ok

\* The 'svn cat' of the after side of the action has ended and failed.
AfterFailed == DiffAction /\ Len(retrieved) = 2 /\ ~retrieved[2].ok

\* The error messages of the after side.
AfterErrors ==
    {"error: Error getting revision of file", "error: Error creating unified diff"}

\* C19: in openInDiffEditor and in showUnifiedDiff a failed retrieval of the
\* before side is not fatal: the before side becomes empty content, the after
\* side is still retrieved, and when that succeeds the diff editor is opened.
C19_BeforeFailureIsNotFatal ==
    BeforeFailed =>
        /\ \E name \in DOMAIN tempFiles :
               name.rev = retrieved[1].rev /\ tempFiles[name] = EmptyContent
        /\ dpc \in {"after", "done"}
        /\ dpc = "done" => Len(retrieved) = 2
        /\ (Len(retrieved) = 2 /\ retrieved[2].ok)
               => /\ diffEditor = Some([old |-> EmptyContent,
                                        new |-> ContentAt(retrieved[2].rev,
                                                          retrieved[2].path)])
                  /\ shown = {}

\* openInDiffEditor has opened the diff editor with an empty before side.
C19_Witness ==
    /\ command = "openInDiffEditor"
    /\ BeforeFailed
    /\ Len(retrieved) = 2
    /\ retrieved[2].ok
    /\ diffEditor # Undefined
    /\ diffEditor[1].old = EmptyContent

\* C20: in openInDiffEditor and in showUnifiedDiff a failed retrieval of the
\* after side is a hard failure: an error message is shown and the diff
\* editor is not opened for the action, whether the before side succeeded or
\* not.
C20_AfterFailureIsFatal ==
    AfterFailed =>
        /\ shown \cap AfterErrors # {}
        /\ diffEditor = Undefined
        /\ dpc = "done"

\* showUnifiedDiff has ended with the error, its before side retrieved.
C20_Witness ==
    /\ command = "showUnifiedDiff"
    /\ AfterFailed
    /\ retrieved[1].ok
    /\ shown \cap AfterErrors # {}
    /\ dpc = "done"

\* ------------------------------------------------- the showChanges command

\* parseSvnLog on a whole text: the locals after the loop over the lines
\* text[from..], begun with the locals st.
RECURSIVE ParseFrom(_, _, _, _)
ParseFrom(st, text, from, tid) ==
    IF from > Len(text) THEN st
    ELSE CHOOSE result \in {ParseFrom(next, text, from + 1, tid) :
                               next \in {ProcessLine(st, text[from], tid)}} : TRUE

\* A changeset of the result, 'currentChangeset as Changeset': its revision,
\* author, date and files were set by the header, its message by the flush.
AsChangeset(cs) ==
    [revision |-> cs.revision[1], author |-> cs.author[1], date |-> cs.date[1],
     message |-> cs.message[1], files |-> cs.files[1]]

ParseSvnLog(text, tid) ==
    LET st == ParseFrom([changesets |-> <<>>, currentChangeset |-> EmptyChangeset,
                         inMessage |-> FALSE, messageLines |-> <<>>], text, 1, tid)
        out == FlushAtEnd(st.changesets, st.currentChangeset, st.messageLines, tid)
    IN  [k \in 1..Len(out) |-> AsChangeset(out[k])]

\* The changesets as parseSvnLog returned them, not sorted.
AsParsed(css) == css

\* changesets.sort((a, b) => parseInt(b.revision) - parseInt(a.revision)):
\* a stable sort, the greatest revision first.
RECURSIVE SortNewestFirst(_)
SortNewestFirst(css) ==
    IF css = <<>> THEN <<>>
    ELSE LET rest == SortNewestFirst(Tail(css))
             above == SelectSeq(rest, LAMBDA cs :
                          ParseInt(cs.revision) > ParseInt(css[1].revision))
             notAbove == SelectSeq(rest, LAMBDA cs :
                             ParseInt(cs.revision) <= ParseInt(css[1].revision))
         IN  above \o <<css[1]>> \o notAbove

\* An external invocation: the command line and the directory it runs in.
Invocation(commandLine, cwd, args) ==
    [command |-> commandLine, cwd |-> cwd, args |-> args]

\* await execAsync(...): the invocation is started; the action that started
\* it is suspended until it ends.
Issue(a, invocation) ==
    [a EXCEPT !.issued = Append(@, invocation),
              !.inFlight = @ \cup {Len(a.issued) + 1}]

\* The invocations of the action a that are awaited: one, while a is
\* suspended at an execAsync.
Awaited(a) == a.inFlight

\* The awaited invocation k has ended, with its output or with an error.
Ended(a, k, outcome) ==
    [a EXCEPT !.inFlight = @ \ {k}, !.outcomes = Append(@, outcome)]

\* The error texts of a failed invocation.
ToolErrors == {<<"svn: E170013">>, <<"spawn svn ENOENT">>}

\* How an invocation ends: with its output, or with an error and its text.
Outcomes ==
    {[ok |-> TRUE, error |-> <<>>]} \cup {[ok |-> FALSE, error |-> e] : e \in ToolErrors}

\* How 'svn info' ends: with its output, or with the error of a folder that
\* is not a working copy.
InfoOutcomes ==
    {[ok |-> TRUE, error |-> <<>>], [ok |-> FALSE, error |-> <<"svn: E155007">>]}

\* How 'svn cat' ends: with the content, or with the error of a path that
\* the revision does not have.
ContentOutcomes ==
    {[ok |-> TRUE, error |-> <<>>], [ok |-> FALSE, error |-> <<"svn: E200009">>]}

\* A message shown to the user: its kind, its text, and what the text carries.
Message(kind, text, detail) == <<kind, text, detail>>

\* The folder of the workspace, when one is open: /w/trunk
WorkspaceFolders == {<<>>, <<<<"/", "w", "/", "t", "r", "u", "n", "k">>>>}

\* The folder chosen in the open dialog: none, or /w/d
DialogResults == {Undefined, Some(<<"/", "w", "/", "d">>)}

\* What the input box returns: nothing when it is dismissed, else digits.
InputBoxResults == {Undefined, Some(<<"1", "0", "0">>)}

\* 'r<revision> | bob | 2024 | 1 line'
HeaderOf(rev) ==
    <<"r">> \o rev \o <<" ", "|", " ", "b", "o", "b", " ", "|", " ", "2", "0", "2",
                        "4", " ", "|", " ", "1", " ", "l", "i", "n", "e">>

\* '   A /a.txt'
AddedA == Indent \o <<"A", " ">> \o PathA

\* '   M /d/a.txt'
ModifiedDA == Indent \o <<"M", " ">> \o PathDA

\* '   M /trunk/b.txt' is FileLineM.

\* The outputs of 'svn log -v --search "#100"': a revision of another
\* ticket; revisions 9 and 10 of the ticket, the older first.
SearchLogs ==
    {<<SepLine, HeaderOf(<<"1", "0">>), BlankLine, FixesLine200, SepLine>>,
     <<SepLine, HeaderOf(<<"9">>), ChangedPathsMarker, FileLineM, BlankLine,
       FixesLine100, SepLine, HeaderOf(<<"1", "0">>), ChangedPathsMarker, AddedA,
       ModifiedDA, BlankLine, FixesLine100, SepLine>>}

\* The command is triggered: with a workspace folder 'svn info' is started
\* in it, without one the open dialog is shown.
ShowChanges ==
    /\ search.pc = "idle"
    /\ \E workspaceFolders \in WorkspaceFolders :
         search' = IF Len(workspaceFolders) > 0
                   THEN Issue([FreshSearch EXCEPT !.pc = "workspace info"],
                              Invocation("svn info", workspaceFolders[1], <<>>))
                   ELSE [FreshSearch EXCEPT !.pc = "open dialog"]
    /\ UNCHANGED <<summaryDoc, entries, handlers, tmpdir, parserVars,
                   extractorVars, resolverVars, panelVars, viewVars>>

\* WorkspaceInfoDone that takes the workspace folder as the working
\* directory whatever 'svn info' said of it.
WorkspaceInfoDoneUnchecked ==
    /\ search.pc = "workspace info"
    /\ \E k \in Awaited(search) : \E outcome \in InfoOutcomes :
         search' = [Ended(search, k, outcome) EXCEPT
                       !.workingDir = Some(search.issued[k].cwd),
                       !.checked = IF outcome.ok THEN @ \cup {search.issued[k].cwd} ELSE @,
                       !.pc = "input box"]
    /\ UNCHANGED <<summaryDoc, entries, handlers, tmpdir, parserVars,
                   extractorVars, resolverVars, panelVars, viewVars>>

\* 'svn info' in the workspace folder ends: the folder is the working
\* directory, or the open dialog is shown.
WorkspaceInfoDone ==
    /\ search.pc = "workspace info"
    /\ \E k \in Awaited(search) : \E outcome \in InfoOutcomes :
         search' = IF outcome.ok
                   THEN [Ended(search, k, outcome) EXCEPT
                            !.workingDir = Some(search.issued[k].cwd),
                            !.checked = @ \cup {search.issued[k].cwd},
                            !.pc = "input box"]
                   ELSE [Ended(search, k, outcome) EXCEPT !.pc = "open dialog"]
    /\ UNCHANGED <<summaryDoc, entries, handlers, tmpdir, parserVars,
                   extractorVars, resolverVars, panelVars, viewVars>>

\* The open dialog is closed: with a folder 'svn info' is started in it,
\* without one the command ends with its error message.
OpenDialogDone ==
    /\ search.pc = "open dialog"
    /\ \E result \in DialogResults :
         search' = IF result # Undefined
                   THEN Issue([search EXCEPT !.pc = "selected info"],
                              Invocation("svn info", result[1], <<>>))
                   ELSE [search EXCEPT
                            !.shown = @ \cup {Message("error",
                                "Please open a folder that is an SVN working copy", <<>>)},
                            !.pc = "done"]
    /\ UNCHANGED <<summaryDoc, entries, handlers, tmpdir, parserVars,
                   extractorVars, resolverVars, panelVars, viewVars>>

\* 'svn info' in the chosen folder ends: the folder is the working
\* directory, or the command ends with its error messages.
SelectedInfoDone ==
    /\ search.pc = "selected info"
    /\ \E k \in Awaited(search) : \E outcome \in InfoOutcomes :
         search' = IF outcome.ok
                   THEN [Ended(search, k, outcome) EXCEPT
                            !.workingDir = Some(search.issued[k].cwd),
                            !.checked = @ \cup {search.issued[k].cwd},
                            !.pc = "input box"]
                   ELSE [Ended(search, k, outcome) EXCEPT
                            !.shown = @ \cup
                                {Message("error",
                                    "Selected folder is not an SVN working copy", <<>>),
                                 Message("error",
                                    "Please open a folder that is an SVN working copy", <<>>)},
                            !.pc = "done"]
    /\ UNCHANGED <<summaryDoc, entries, handlers, tmpdir, parserVars,
                   extractorVars, resolverVars, panelVars, viewVars>>

\* The input box is closed: with a ticket ID the log query is started in
\* the working directory, without one the command ends.
InputBoxDone ==
    /\ search.pc = "input box"
    /\ \E input \in InputBoxResults :
         search' = IF input # Undefined /\ input[1] # <<>>
                   THEN Issue([search EXCEPT !.ticketId = input, !.pc = "log"],
                              Invocation("svn log -v --search", search.workingDir[1],
                                         TicketTag(input[1])))
                   ELSE [search EXCEPT !.pc = "done"]
    /\ UNCHANGED <<summaryDoc, entries, handlers, tmpdir, parserVars,
                   extractorVars, resolverVars, panelVars, viewVars>>
\* The entries of the webview, one for each changeset in the order of the
\* array, with the index that toggleDiff and the diff container are given.
EntriesOf(css) ==
    [k \in 1..Len(css) |-> [revision |-> css[k].revision, index |-> k - 1]]

\* The log query ends.  When it failed the error is shown.  Else its output
\* is parsed: without a changeset of the ticket an information message is
\* shown; with one, the changesets are sorted, the summary document is
\* written and shown, the panel is created with its html, and the message
\* handler is registered.
LogDone ==
    /\ search.pc = "log"
    /\ \E k \in Awaited(search) : \E outcome \in Outcomes :
         \E stdout \in IF outcome.ok THEN SearchLogs ELSE {<<>>} :
           \E parsed \in {ParseSvnLog(stdout, search.ticketId[1])} :
             IF ~outcome.ok
             THEN /\ search' = [Ended(search, k, outcome) EXCEPT
                                   !.shown = @ \cup {Message("error",
                                       "Error searching for commits: ", outcome.error)},
                                   !.pc = "done"]
                  /\ UNCHANGED <<summaryDoc, entries, ppc, panelChangesets,
                                 workingDir, containers>>
             ELSE IF Len(parsed) = 0
             THEN /\ search' = [Ended(search, k, outcome) EXCEPT
                                   !.shown = @ \cup {Message("information",
                                       "No changesets found for ticket #",
                                       search.ticketId[1])},
                                   !.pc = "done"]
                  /\ UNCHANGED <<summaryDoc, entries, ppc, panelChangesets,
                                 workingDir, containers>>
             ELSE \E sorted \in {SortNewestFirst(parsed)} :
                    /\ search' = [Ended(search, k, outcome) EXCEPT !.pc = "done"]
                    /\ summaryDoc' = Some(sorted)
                    /\ panelChangesets' = SortNewestFirst(sorted)
                    /\ entries' = EntriesOf(panelChangesets')
                    /\ containers' = [index \in 0..(Len(sorted) - 1) |->
                                         [active |-> FALSE, text |-> LoadingText]]
                    /\ workingDir' = search.workingDir[1]
                    /\ ppc' = "open"
    /\ UNCHANGED <<handlers, tmpdir, parserVars, extractorVars, rpc, selectedFile,
                   adjustedFilePath, command, dpc, revision, prevRevision,
                   uniqueFiles, lowestRevision, highestRevision, tempFiles,
                   retrieved, shown, diffEditor, requests, toExtension, running,
                   toWebview, posted>>

\* ------------------------------------------- the message handler of the panel

\* The place of the handler that the next message starts.
NextHandler == SetMin({id \in DOMAIN handlers : handlers[id].pc = "idle"})

\* A message can be received: the panel is there, and the bound is not
\* reached.
CanReceive == ppc = "open" /\ \E id \in DOMAIN handlers : handlers[id].pc = "idle"

\* 'svn diff -c revision'
SvnDiff(rev) == Invocation("svn diff -c", workingDir, <<rev>>)

\* 'svn log -v -c revision'
SvnLogRevision(rev) == Invocation("svn log -v -c", workingDir, <<rev>>)

\* 'svn cat -r rev "path"'
SvnCat(rev, path) == Invocation("svn cat -r", workingDir, <<rev, path>>)

\* The text sent without the error of the failed invocation.
ErrorLoadingDiffUnnamed(error) == <<"Error loading diff: ", <<>>>>

\* The text sent when 'svn diff -c revision' fails with the error.
ErrorLoadingDiff(error) == <<"Error loading diff: ", error>>

\* A loadDiff message of the view arrives, with the revision and the index
\* of an entry: 'svn diff -c revision' is started.
ReceiveLoadDiff ==
    /\ CanReceive
    /\ \E k \in 1..Len(entries) :
         handlers' = [handlers EXCEPT ![NextHandler] =
             Issue([FreshHandler EXCEPT !.command = "loadDiff",
                                        !.revision = entries[k].revision,
                                        !.index = entries[k].index,
                                        !.pc = "diff"],
                   SvnDiff(entries[k].revision))]
    /\ UNCHANGED <<search, summaryDoc, entries, tmpdir, parserVars, extractorVars,
                   resolverVars, panelVars, viewVars>>

\* The diffLoaded message posted when 'svn diff' has ended.
DiffLoadedMessage(h, outcome) ==
    [command |-> "diffLoaded",
     diff    |-> IF outcome.ok THEN DiffOf(h.revision)
                 ELSE ErrorLoadingDiff(outcome.error),
     index   |-> h.index]

\* 'svn diff' of a handler ends, with its output or with an error: the
\* diffLoaded message is posted.
SvnDiffEnded ==
    /\ \E id \in DOMAIN handlers :
         /\ handlers[id].pc = "diff"
         /\ \E k \in Awaited(handlers[id]) : \E outcome \in Outcomes :
              handlers' = [handlers EXCEPT ![id] =
                  [Ended(handlers[id], k, outcome) EXCEPT
                      !.posted = Some(DiffLoadedMessage(handlers[id], outcome)),
                      !.pc = "done"]]
    /\ UNCHANGED <<search, summaryDoc, entries, tmpdir, parserVars, extractorVars,
                   resolverVars, panelVars, viewVars>>
\* An openInDiffEditor message of the view arrives, with the revision of an
\* entry: 'svn log -v -c revision' is started.
ReceiveOpenInDiffEditor ==
    /\ CanReceive
    /\ \E k \in 1..Len(entries) :
         handlers' = [handlers EXCEPT ![NextHandler] =
             Issue([FreshHandler EXCEPT !.command = "openInDiffEditor",
                                        !.revision = entries[k].revision,
                                        !.pc = "log"],
                   SvnLogRevision(entries[k].revision))]
    /\ UNCHANGED <<search, summaryDoc, entries, tmpdir, parserVars, extractorVars,
                   resolverVars, panelVars, viewVars>>

\* Both 'svn cat' invocations started together, neither awaited alone.
RetrieveBothSides(h) ==
    Issue(Issue([h EXCEPT !.pc = "before"],
                SvnCat(h.oldVersionPath.rev, h.adjustedFilePath)),
          SvnCat(h.newVersionPath.rev, h.adjustedFilePath))

\* 'svn cat' of the before side is started and awaited.
RetrieveBefore(h) ==
    Issue([h EXCEPT !.pc = "before"], SvnCat(h.oldVersionPath.rev, h.adjustedFilePath))

\* 'svn cat' of the after side is started and awaited.
RetrieveAfter(h) ==
    Issue([h EXCEPT !.pc = "after"], SvnCat(h.newVersionPath.rev, h.adjustedFilePath))

\* The openInDiffEditor branch from the selection of the file to the first
\* 'svn cat': the previous revision, the names of the temp files, the
\* adjusted path.
BeginOpenDiff(h, file) ==
    LET previous == ParseInt(h.revision) - 1
        fileNameOnly == Basename(file)
    IN  RetrieveBefore([h EXCEPT
            !.selectedFile = file,
            !.oldVersionPath = TempPath(previous, fileNameOnly),
            !.newVersionPath = TempPath(ParseInt(h.revision), fileNameOnly),
            !.adjustedFilePath = AdjustFilePath(file, workingDir)])

\* The openInDiffEditor branch after 'svn log -v -c revision' has ended,
\* extracted being the changed files extracted from its output.  When it
\* failed the error is shown; with no file a warning is shown, with one the branch goes
\* on to the first 'svn cat', with more it waits for the quick pick.
AfterRevisionLog(h, outcome, extracted) ==
    IF ~outcome.ok
    THEN [h EXCEPT !.shown = @ \cup {Message("error", "Error opening diff: ",
                                             outcome.error)},
                   !.pc = "done"]
    ELSE IF Len(extracted) = 0
    THEN [h EXCEPT !.shown = @ \cup {Message("warning",
                       "No changed files found in revision ", h.revision)},
                   !.pc = "done"]
    ELSE IF Len(extracted) > 1
    THEN [h EXCEPT !.files = extracted, !.pc = "pick"]
    ELSE BeginOpenDiff([h EXCEPT !.files = extracted], extracted[1])

\* The outputs of 'svn log -v -c revision' that the handlers get: a
\* revision without changed paths, and one with two.
HandlerRevisionLogs ==
    {text \in RevisionLogs : \A k \in 1..Len(text) : text[k] # DeletedLine}

\* What extractChangedFilesFromLog returns for them.
RevisionLogFiles == {ExtractChangedFilesFromLog(text) : text \in HandlerRevisionLogs}

\* 'svn log -v -c revision' of a handler ends, with its output or with an
\* error.
RevisionLogEnded ==
    /\ \E id \in DOMAIN handlers :
         /\ handlers[id].command = "openInDiffEditor"
         /\ handlers[id].pc = "log"
         /\ \E k \in Awaited(handlers[id]) : \E outcome \in Outcomes :
              \E extracted \in IF outcome.ok THEN RevisionLogFiles ELSE {<<>>} :
                \E after \in {AfterRevisionLog(Ended(handlers[id], k, outcome), outcome,
                                               extracted)} :
                  handlers' = [handlers EXCEPT ![id] = after]
    /\ UNCHANGED <<search, summaryDoc, entries, tmpdir, parserVars, extractorVars,
                   resolverVars, panelVars, viewVars>>

\* The quick pick of openInDiffEditor is answered: with a file, or cancelled.
OpenFilePicked ==
    /\ \E id \in DOMAIN handlers :
         /\ handlers[id].command = "openInDiffEditor"
         /\ handlers[id].pc = "pick"
         /\ \/ \E k \in 1..Len(handlers[id].files) :
                 handlers' = [handlers EXCEPT ![id] =
                                 BeginOpenDiff(handlers[id], handlers[id].files[k])]
            \/ handlers' = [handlers EXCEPT ![id].pc = "done"]
    /\ UNCHANGED <<search, summaryDoc, entries, tmpdir, parserVars, extractorVars,
                   resolverVars, panelVars, viewVars>>

\* The handler when 'svn cat' of its before side has ended: it keeps the
\* content it writes to the old temp file and starts 'svn cat' of the after
\* side.
AfterBefore(h, outcome) ==
    RetrieveAfter([h EXCEPT !.oldContent =
        Some(OldContent(outcome.ok, h.oldVersionPath.rev, h.adjustedFilePath))])

\* The handler with 'svn cat' of the after side started again when it has
\* failed.
AfterAfterRetrying(h, outcome, files, text) ==
    IF outcome.ok
    THEN [h EXCEPT
             !.newContent = Some(ContentAt(h.newVersionPath.rev, h.adjustedFilePath)),
             !.diffEditor = Some([old |-> files[h.oldVersionPath],
                                  new |-> files[h.newVersionPath]]),
             !.pc = "done"]
    ELSE RetrieveAfter(h)

\* The handler when 'svn cat' of its after side has ended: it has opened the
\* diff editor on the two temp files, as they are in files, or shown the
\* error named text.
AfterAfter(h, outcome, files, text) ==
    [h EXCEPT
        !.newContent = IF outcome.ok
                       THEN Some(ContentAt(h.newVersionPath.rev, h.adjustedFilePath))
                       ELSE Undefined,
        !.diffEditor = DiffEditorAfter(outcome.ok, files[h.oldVersionPath],
                           IF outcome.ok THEN files[h.newVersionPath] ELSE EmptyContent),
        !.shown = IF outcome.ok THEN @
                  ELSE @ \cup {Message("error", text, outcome.error)},
        !.pc = "done"]

\* os.tmpdir() after the handler has written the output of a successful
\* 'svn cat' of its after side.
WriteNew(files, h, outcome) ==
    IF outcome.ok
    THEN WriteFile(files, h.newVersionPath,
                   ContentAt(h.newVersionPath.rev, h.adjustedFilePath))
    ELSE files

\* 'svn cat' of the previous revision ends: its output, or nothing when it
\* failed, is written to the old temp file, and 'svn cat' of the revision is
\* started.
OpenBeforeEnded ==
    /\ \E id \in DOMAIN handlers :
         /\ handlers[id].command = "openInDiffEditor"
         /\ handlers[id].pc = "before"
         /\ \E k \in Awaited(handlers[id]) : \E outcome \in ContentOutcomes :
              \E after \in {AfterBefore(Ended(handlers[id], k, outcome), outcome)} :
                /\ handlers' = [handlers EXCEPT ![id] = after]
                /\ tmpdir' = WriteFile(tmpdir, after.oldVersionPath, after.oldContent[1])
    /\ UNCHANGED <<search, summaryDoc, entries, parserVars, extractorVars,
                   resolverVars, panelVars, viewVars>>

\* 'svn cat' of the revision ends: its output is written to the new temp
\* file and the diff editor opened on the two files, or the error is shown
\* and the branch returns.
OpenAfterEnded ==
    /\ \E id \in DOMAIN handlers :
         /\ handlers[id].command = "openInDiffEditor"
         /\ handlers[id].pc = "after"
         /\ \E k \in Awaited(handlers[id]) : \E outcome \in ContentOutcomes :
              /\ tmpdir' = WriteNew(tmpdir, handlers[id], outcome)
              /\ handlers' = [handlers EXCEPT ![id] =
                     AfterAfter(Ended(handlers[id], k, outcome), outcome, tmpdir',
                                "Error getting revision of file: ")]
    /\ UNCHANGED <<search, summaryDoc, entries, parserVars, extractorVars,
                   resolverVars, panelVars, viewVars>>
\* changesets sorted by the handler itself, the oldest revision first: what
\* sort would leave had it been called on changesets.
ChangesetsSortedByHandler(css, file) ==
    LET newestFirst == SortNewestFirst(css)
    IN  [k \in 1..Len(css) |-> newestFirst[Len(css) + 1 - k]]

\* changesets after revisionsWithFile is computed: filter and map return new
\* arrays, and sort orders the array it is called on, the one map returned.
ChangesetsAfterHandler(css, file) == css

\* The showUnifiedDiff branch from the selection of the file to the first
\* 'svn cat': the span of revisions, the adjusted path, the names of the temp
\* files.
BeginUnifiedDiff(h, file) ==
    LET revisionsWithFile == RevisionsWithFile(panelChangesets, file)
        adjusted == AdjustFilePath(file, workingDir)
        fileNameOnly == Basename(adjusted)
    IN  IF Len(revisionsWithFile) = 0
        THEN [h EXCEPT !.selectedFile = file,
                       !.shown = @ \cup {Message("warning",
                                             "Could not find revisions for ", file)},
                       !.pc = "done"]
        ELSE RetrieveBefore([h EXCEPT
                 !.selectedFile = file,
                 !.adjustedFilePath = adjusted,
                 !.oldVersionPath = TempPath(revisionsWithFile[1] - 1, fileNameOnly),
                 !.newVersionPath = TempPath(revisionsWithFile[Len(revisionsWithFile)],
                                             fileNameOnly)])

\* The showUnifiedDiff branch up to its first await: the files of all
\* changesets are collected; with none a warning is shown, with one the
\* branch goes on to the first 'svn cat', with more it waits for the quick
\* pick.
BeginShowUnifiedDiff(h) ==
    LET uniqueFilesNow == UniqueFilesOf(panelChangesets)
    IN  IF Len(uniqueFilesNow) = 0
        THEN [h EXCEPT !.shown = @ \cup {Message("warning",
                           "No files found across revisions for ticket #",
                           search.ticketId[1])},
                       !.pc = "done"]
        ELSE IF Len(uniqueFilesNow) > 1
        THEN [h EXCEPT !.files = uniqueFilesNow, !.pc = "pick"]
        ELSE BeginUnifiedDiff([h EXCEPT !.files = uniqueFilesNow], uniqueFilesNow[1])

\* A showUnifiedDiff message of the view arrives.
ReceiveShowUnifiedDiff ==
    /\ CanReceive
    /\ \E after \in {BeginShowUnifiedDiff(
                        [FreshHandler EXCEPT !.command = "showUnifiedDiff"])} :
         /\ handlers' = [handlers EXCEPT ![NextHandler] = after]
         /\ panelChangesets' =
              IF after.pc = "before"
              THEN ChangesetsAfterHandler(panelChangesets, after.selectedFile)
              ELSE panelChangesets
    /\ UNCHANGED <<search, summaryDoc, entries, tmpdir, parserVars, extractorVars,
                   resolverVars, viewVars, ppc, command, dpc, revision,
                   prevRevision, uniqueFiles, lowestRevision, highestRevision,
                   tempFiles, retrieved, shown, diffEditor>>

\* The quick pick of showUnifiedDiff is answered: with a file, or cancelled.
UnifiedFilePicked ==
    /\ \E id \in DOMAIN handlers :
         /\ handlers[id].command = "showUnifiedDiff"
         /\ handlers[id].pc = "pick"
         /\ \/ \E k \in 1..Len(handlers[id].files) :
                 /\ handlers' = [handlers EXCEPT ![id] =
                        BeginUnifiedDiff(handlers[id], handlers[id].files[k])]
                 /\ panelChangesets' =
                        ChangesetsAfterHandler(panelChangesets, handlers[id].files[k])
            \/ /\ handlers' = [handlers EXCEPT ![id].pc = "done"]
               /\ UNCHANGED panelChangesets
    /\ UNCHANGED <<search, summaryDoc, entries, tmpdir, parserVars, extractorVars,
                   resolverVars, viewVars, ppc, command, dpc, revision,
                   prevRevision, uniqueFiles, lowestRevision, highestRevision,
                   tempFiles, retrieved, shown, diffEditor>>

\* 'svn cat' of the lowest revision ends: its output, or nothing when it
\* failed, is written to the old temp file, and 'svn cat' of the highest
\* revision is started.
UnifiedBeforeEnded ==
    /\ \E id \in DOMAIN handlers :
         /\ handlers[id].command = "showUnifiedDiff"
         /\ handlers[id].pc = "before"
         /\ \E k \in Awaited(handlers[id]) : \E outcome \in ContentOutcomes :
              \E after \in {AfterBefore(Ended(handlers[id], k, outcome), outcome)} :
                /\ handlers' = [handlers EXCEPT ![id] = after]
                /\ tmpdir' = WriteFile(tmpdir, after.oldVersionPath, after.oldContent[1])
    /\ UNCHANGED <<search, summaryDoc, entries, parserVars, extractorVars,
                   resolverVars, panelVars, viewVars>>

\* 'svn cat' of the highest revision ends: its output is written to the new
\* temp file and the diff editor opened on the two files, or the error is
\* shown.
UnifiedAfterEnded ==
    /\ \E id \in DOMAIN handlers :
         /\ handlers[id].command = "showUnifiedDiff"
         /\ handlers[id].pc = "after"
         /\ \E k \in Awaited(handlers[id]) : \E outcome \in ContentOutcomes :
              /\ tmpdir' = WriteNew(tmpdir, handlers[id], outcome)
              /\ handlers' = [handlers EXCEPT ![id] =
                     AfterAfter(Ended(handlers[id], k, outcome), outcome, tmpdir',
                                "Error creating unified diff: ")]
    /\ UNCHANGED <<search, summaryDoc, entries, parserVars, extractorVars,
                   resolverVars, panelVars, viewVars>>

\* The command, and the handlers of its panel running together.
NextShell ==
    \/ ShowChanges
    \/ WorkspaceInfoDone
    \/ OpenDialogDone
    \/ SelectedInfoDone
    \/ InputBoxDone
    \/ LogDone
    \/ ReceiveLoadDiff
    \/ SvnDiffEnded
    \/ ReceiveOpenInDiffEditor
    \/ RevisionLogEnded
    \/ OpenFilePicked
    \/ OpenBeforeEnded
    \/ OpenAfterEnded
    \/ ReceiveShowUnifiedDiff
    \/ UnifiedFilePicked
    \/ UnifiedBeforeEnded
    \/ UnifiedAfterEnded

SpecShell == Init /\ [][NextShell]_vars

\* ---------------------------------------------------------------- claim C21

\* The user-triggered actions that have started: the command, and the
\* handlers of the openInDiffEditor and showUnifiedDiff messages.
DiffHandlers ==
    {id \in DOMAIN handlers :
        handlers[id].command \in {"openInDiffEditor", "showUnifiedDiff"}}

UserActions == {search} \cup {handlers[id] : id \in DiffHandlers}

\* C21: within one user-triggered action (the search command,
\* openInDiffEditor, showUnifiedDiff) the external invocations run one after
\* the other: the only invocation of the action that can be in flight is the
\* one it started last, so that every earlier one had ended, with its output
\* or with an error, when the next was started.
C21_OneInvocationInFlight ==
    \A a \in UserActions :
        /\ a.inFlight \subseteq {Len(a.issued)}
        /\ Cardinality(a.inFlight) <= 1

\* An openInDiffEditor handler awaits its third invocation, the second
\* 'svn cat', while another handler awaits an invocation of its own.
C21_Witness ==
    \E id \in DiffHandlers : \E other \in DiffHandlers \ {id} :
        /\ handlers[id].command = "openInDiffEditor"
        /\ Len(handlers[id].issued) = 3
        /\ handlers[id].inFlight = {3}
        /\ handlers[other].inFlight # {}
        /\ Len(search.issued) >= 2

\* ---------------------------------------------------------------- claim C22

\* Every action that has started: the command and the handlers.
StartedActions ==
    {search} \cup {handlers[id] : id \in {i \in DOMAIN handlers : handlers[i].pc # "idle"}}

\* How many of the invocations that the action a has started run commandLine.
TimesIssued(a, commandLine) ==
    Cardinality({k \in 1..Len(a.issued) : a.issued[k].command = commandLine})

\* C22: no external invocation is retried: within one action the log query,
\* the log of one revision and the diff are each executed at most once, and
\* 'svn cat' at most twice, once for the before side and once, with another
\* revision, for the after side, whether they succeed or fail.
C22_EachCommandAtMostOnce ==
    \A a \in StartedActions :
        /\ TimesIssued(a, "svn log -v --search") <= 1
        /\ TimesIssued(a, "svn log -v -c") <= 1
        /\ TimesIssued(a, "svn diff -c") <= 1
        /\ TimesIssued(a, "svn cat -r") <= 2
        /\ \A j, k \in 1..Len(a.issued) :
               (j # k /\ a.issued[j].command # "svn info")
                   => a.issued[j] # a.issued[k]

\* The log query of the command has failed and the command has ended; or a
\* handler has ended after its second 'svn cat' failed.
FailedAndEnded(a) ==
    /\ a.pc = "done"
    /\ a.inFlight = {}
    /\ \E message \in a.shown : message[1] = "error"

\* A handler has ended with the error of its second 'svn cat', having run
\* 'svn log' once and 'svn cat' twice.
C22_Witness ==
    \E id \in DOMAIN handlers :
        /\ FailedAndEnded(handlers[id])
        /\ TimesIssued(handlers[id], "svn log -v -c") = 1
        /\ TimesIssued(handlers[id], "svn cat -r") = 2
        /\ handlers[id].oldContent = Some(EmptyContent)

\* ---------------------------------------------------------------- claim C23

\* The invocations of the action a that ran commandLine and have failed, by
\* their place in its history.
Failures(a, commandLine) ==
    {k \in 1..Len(a.outcomes) :
        a.issued[k].command = commandLine /\ ~a.outcomes[k].ok}

\* C23: a failed log query, log of one revision or diff reaches the user
\* with the error text of the tool, in an error message or, for loadDiff, in
\* the diff of the diffLoaded message, and the action does nothing more: after
\* a failed log query there is no summary document, no panel and no handler;
\* after a failed log of one revision no file is selected, no content is
\* retrieved and no diff editor is opened.
C23_FailureShownAndActionEnds ==
    /\ \A k \in Failures(search, "svn log -v --search") :
           /\ Message("error", "Error searching for commits: ",
                      search.outcomes[k].error) \in search.shown
           /\ search.outcomes[k].error \in ToolErrors
           /\ search.pc = "done"
           /\ summaryDoc = Undefined
           /\ ppc = "closed"
           /\ entries = <<>>
           /\ \A id \in DOMAIN handlers : handlers[id] = FreshHandler
    /\ \A id \in DOMAIN handlers :
           /\ \A k \in Failures(handlers[id], "svn log -v -c") :
                  /\ Message("error", "Error opening diff: ",
                             handlers[id].outcomes[k].error) \in handlers[id].shown
                  /\ handlers[id].outcomes[k].error \in ToolErrors
                  /\ handlers[id].pc = "done"
                  /\ Len(handlers[id].issued) = 1
                  /\ handlers[id].selectedFile = <<>>
                  /\ handlers[id].oldContent = Undefined
                  /\ handlers[id].diffEditor = Undefined
           /\ \A k \in Failures(handlers[id], "svn diff -c") :
                  /\ handlers[id].posted =
                         Some([command |-> "diffLoaded",
                               diff |-> <<"Error loading diff: ",
                                          handlers[id].outcomes[k].error>>,
                               index |-> handlers[id].index])
                  /\ handlers[id].outcomes[k].error \in ToolErrors
                  /\ handlers[id].pc = "done"
                  /\ Len(handlers[id].issued) = 1

\* The log of one revision has failed for one handler and the diff for
\* another, with different errors.
C23_Witness ==
    \E id, other \in DOMAIN handlers :
        /\ Failures(handlers[id], "svn log -v -c") = {1}
        /\ Failures(handlers[other], "svn diff -c") = {1}
        /\ handlers[id].outcomes[1].error # handlers[other].outcomes[1].error
        /\ handlers[other].posted # Undefined

\* ---------------------------------------------------------------- claim C24

\* Every invocation that a handler has awaited so far has succeeded.
AllSucceeded ==
    \A id \in DOMAIN handlers :
        \A k \in 1..Len(handlers[id].outcomes) : handlers[id].outcomes[k].ok

\* C24: whatever the interleaving of the diff actions, the diff editor a
\* handler opens shows, on its two sides, the before and the after content
\* that this handler itself has retrieved and written to its temp files;
\* stated for the runs in which every retrieval succeeds.
C24_EditorShowsOwnContents ==
    AllSucceeded =>
        \A id \in DiffHandlers :
            handlers[id].diffEditor # Undefined
                => handlers[id].diffEditor =
                       Some([old |-> handlers[id].oldContent[1],
                             new |-> handlers[id].newContent[1]])

\* ---------------------------------------------------------------- claim C25

\* C25: once the message handler is registered the changesets of the search
\* are not mutated: whatever loadDiff, openInDiffEditor and showUnifiedDiff
\* messages are handled, the sequence is the one the summary document and
\* the entries of the view were written from, in the same order and with the
\* same revision, author, date, message and files in every record.
C25_ChangesetsNeverMutated ==
    ppc = "open" =>
        /\ summaryDoc # Undefined
        /\ panelChangesets = summaryDoc[1]
        /\ entries = EntriesOf(panelChangesets)
        /\ \A k \in 1..Len(panelChangesets) :
               DOMAIN panelChangesets[k] =
                   {"revision", "author", "date", "message", "files"}

\* A showUnifiedDiff handler has computed its span over the two changesets
\* and retrieved its before side, and a loadDiff handler has posted its
\* answer.
C25_Witness ==
    /\ Len(panelChangesets) = 2
    /\ \E id, other \in DOMAIN handlers :
           /\ handlers[id].command = "showUnifiedDiff"
           /\ handlers[id].oldContent # Undefined
           /\ handlers[other].command = "loadDiff"
           /\ handlers[other].posted # Undefined

\* ---------------------------------------------------------------- claim C26

\* The records of seq, each with a revision, are in non-increasing order of
\* their revisions read as integers.
NewestFirst(seq) ==
    \A j, k \in 1..Len(seq) :
        j < k => ParseInt(seq[j].revision) >= ParseInt(seq[k].revision)

\* C26: the changesets are presented newest first: the sections of the
\* summary document and the entries of the view are in non-increasing order
\* of revision, compared as integers; the index of an entry is its place in
\* that order, counted from 0, and a loadDiff message carries the revision
\* and the index of one entry.
C26_NewestFirstWithIndex ==
    summaryDoc # Undefined =>
        /\ NewestFirst(summaryDoc[1])
        /\ NewestFirst(entries)
        /\ Len(entries) = Len(summaryDoc[1])
        /\ \A k \in 1..Len(entries) :
               /\ entries[k].index = k - 1
               /\ entries[k].revision = summaryDoc[1][k].revision
        /\ \A id \in DOMAIN handlers :
               handlers[id].command = "loadDiff"
                   => /\ handlers[id].index \in 0..(Len(entries) - 1)
                      /\ entries[handlers[id].index + 1].revision = handlers[id].revision

\* The log lists r9 before r10; the view has r10 at index 0 and r9 at
\* index 1, and a loadDiff message for r9 has arrived with index 1.
C26_Witness ==
    /\ summaryDoc # Undefined
    /\ Len(entries) = 2
    /\ ParseInt(entries[1].revision) = 10
    /\ ParseInt(entries[2].revision) = 9
    /\ \E id \in DOMAIN handlers :
           /\ handlers[id].command = "loadDiff"
           /\ handlers[id].index = 1
           /\ ParseInt(handlers[id].revision) = 9

\* ---------------------------------------------------------------- claim C27

\* The lines of the status-letter specification: a revision with an added
\* path and a replaced path, its message, and the separator.
StatusLines == {SepLine, HeaderLine, FileLineA, ReplacedLine, BlankLine, FixesLine100}

NextStatus == Call \/ ReadLine(StatusLines, MaxStatusLines) \/ Return

SpecStatus == Init /\ [][NextStatus]_vars

\* The line is a changed-path line for the path entry with status letter
\* A, M or D: the indentation, the letter, white space, the path.
IsAMDLineFor(line, entry) ==
    \E letter \in {"A", "M", "D"} :
        \E n \in 1..Len(line) :
            line = Indent \o <<letter>> \o [k \in 1..n |-> " "] \o entry

\* C27: every entry of the files of an emitted changeset comes from a line
\* of the text that is a changed-path line with status letter A, M or D; a
\* line with another status letter adds no entry.
C27_FilesOnlyFromAMD ==
    \A c \in 1..Len(changesets) :
        \A f \in 1..Len(changesets[c].files[1]) :
            \E k \in 1..Len(lines) :
                IsAMDLineFor(lines[k], changesets[c].files[1][f])

\* ---------------------------------------------------------------- claim C28

\* The invocation k of the search command is the log query.
IsLogQuery(k) == search.issued[k].command = "svn log -v --search"

\* The invocation k of the search command has ended with its output.
EndedWell(k) == k <= Len(search.outcomes) /\ search.outcomes[k].ok

\* The summary document, the panel or a handler of its messages exists.
Presented ==
    \/ summaryDoc # Undefined
    \/ ppc = "open"
    \/ entries # <<>>
    \/ \E id \in DOMAIN handlers : handlers[id].pc # "idle"

\* C28: the search command goes through its steps in order and stops at the
\* first that is not met.  The log query is started only after a ticket ID
\* was entered, with that ID, and in a directory in which 'svn info' had
\* succeeded before; the summary document, the panel and the handlers of
\* its messages exist only when the log query has succeeded and parseSvnLog
\* has returned a changeset; with no changeset an information message is
\* shown and nothing is presented, and after an error message nothing is
\* presented either.
C28_StepsInOrder ==
    /\ \A k \in 1..Len(search.issued) :
           IsLogQuery(k) =>
               /\ search.ticketId # Undefined
               /\ search.ticketId[1] # <<>>
               /\ search.issued[k].args = TicketTag(search.ticketId[1])
               /\ search.issued[k].cwd \in search.checked
               /\ \E j \in 1..(k - 1) :
                      /\ search.issued[j].command = "svn info"
                      /\ search.issued[j].cwd = search.issued[k].cwd
                      /\ EndedWell(j)
    /\ Presented =>
           /\ search.pc = "done"
           /\ search.inFlight = {}
           /\ search.issued # <<>>
           /\ IsLogQuery(Len(search.issued))
           /\ EndedWell(Len(search.issued))
           /\ summaryDoc # Undefined
           /\ Len(summaryDoc[1]) >= 1
           /\ ppc = "open"
           /\ search.shown = {}
    /\ search.shown # {} => search.pc = "done" /\ ~Presented
    /\ (search.pc = "done" /\ search.issued # <<>>
            /\ IsLogQuery(Len(search.issued)) /\ EndedWell(Len(search.issued))
            /\ ~Presented)
           => search.shown = {Message("information", "No changesets found for ticket #",
                                      search.ticketId[1])}

\* 'svn info' failed in the workspace folder and succeeded in the folder
\* chosen in the dialog; the log query ran in the chosen folder and the
\* panel is open with a handler started.
C28_Witness ==
    /\ Len(search.issued) = 3
    /\ ~search.outcomes[1].ok
    /\ search.issued[2].cwd # search.issued[1].cwd
    /\ IsLogQuery(3)
    /\ search.issued[3].cwd = search.issued[2].cwd
    /\ ppc = "open"
    /\ summaryDoc # Undefined
    /\ \E id \in DOMAIN handlers : handlers[id].pc # "idle"

\* ---------------------------------------------------------------- claim C29

\* The path is a substring of a file path recorded in a changeset.
InRecordedPath(css, path) ==
    \E i \in 1..Len(css) : \E j \in 1..Len(css[i].files) :
        Includes(css[i].files[j], path)

\* C29: in showUnifiedDiff every file offered for selection is a substring
\* of a path recorded in a changeset, so the revisions that touch the
\* selected file are never none and the warning 'Could not find revisions'
\* is never shown.
C29_OfferedFileIsRecorded ==
    command = "showUnifiedDiff" =>
        /\ \A k \in 1..Len(uniqueFiles) : InRecordedPath(panelChangesets, uniqueFiles[k])
        /\ dpc \in {"before", "after"}
               => /\ InRecordedPath(panelChangesets, selectedFile)
                  /\ RevisionsWithFile(panelChangesets, selectedFile) # <<>>
        /\ "warning: Could not find revisions" \notin shown

\* A file was picked among several whose offered text is not the recorded
\* path itself, and the span of its revisions was found.
C29_Witness ==
    /\ command = "showUnifiedDiff"
    /\ dpc = "before"
    /\ Len(uniqueFiles) > 1
    /\ selectedFile # <<>>
    /\ \A i \in 1..Len(panelChangesets) : \A j \in 1..Len(panelChangesets[i].files) :
           panelChangesets[i].files[j] # selectedFile
    /\ lowestRevision < highestRevision

\* ---------------------------------------------------------------- claim C30

\* The paths recorded in the file lists of the changesets.
RecordedPaths(css) == {AllFiles(css)[k] : k \in 1..Len(AllFiles(css))}

\* C30: the files offered by showUnifiedDiff are the distinct paths recorded
\* in the file lists of the changesets: each recorded path once, unaltered.
C30_OfferedAreRecordedPaths ==
    command = "showUnifiedDiff" =>
        /\ {uniqueFiles[k] : k \in 1..Len(uniqueFiles)} = RecordedPaths(panelChangesets)
        /\ \A j, k \in 1..Len(uniqueFiles) : uniqueFiles[j] = uniqueFiles[k] => j = k

\* ---------------------------------------------------------------- claim C31

\* C31: a diff is requested only when it has been neither requested nor
\* loaded: whatever the toggles and the deliveries of diffLoaded messages,
\* the view posts at most one loadDiff message for a changeset index.
C31_OneRequestPerIndex ==
    \A j, k \in 1..Len(requests) :
        requests[j].index = requests[k].index => j = k

\* ---------------------------------------------------------------- claim C32

\* The lines of the segment specification: texts of several segments.
SegmentLines == {SepLine, HeaderLine, FileLineA, BlankLine, FixesLine100}

NextSegments == Call \/ ReadLine(SegmentLines, MaxSegmentLines) \/ Return

SpecSegments == Init /\ [][NextSegments]_vars

\* The segments of a text: its lines between one separator, or the start of
\* the text, and the next separator, or the end of the text.
RECURSIVE SegmentsOf(_)
SegmentsOf(text) ==
    LET seps == {k \in 1..Len(text) : IsSeparator(text[k])}
    IN  IF seps = {} THEN <<text>>
        ELSE <<SubSeq(text, 1, SetMin(seps) - 1)>>
                 \o SegmentsOf(SubSeq(text, SetMin(seps) + 1, Len(text)))

\* The segments that have ended: all of them once the text has ended, all
\* but the one being read before.
EndedSegments ==
    IF pc = "done" THEN SegmentsOf(lines)
    ELSE SubSeq(SegmentsOf(lines), 1, Len(SegmentsOf(lines)) - 1)

\* What parseSvnLog returns for the text made of one segment and nothing
\* else: no changeset, or one.
ParsedAlone(seg, tid) ==
    LET st == ParseFrom([changesets |-> <<>>, currentChangeset |-> EmptyChangeset,
                         inMessage |-> FALSE, messageLines |-> <<>>], seg, 1, tid)
    IN  FlushAtEnd(<<>>, st.currentChangeset, st.messageLines, tid)

\* s.split('\n')
RECURSIVE SplitLines(_)
SplitLines(s) ==
    LET breaks == {k \in 1..Len(s) : s[k] = "\n"}
    IN  IF breaks = {} THEN <<s>>
        ELSE <<SubSeq(s, 1, SetMin(breaks) - 1)>>
                 \o SplitLines(SubSeq(s, SetMin(breaks) + 1, Len(s)))

\* Every field of the changeset cs is read from a line of the segment seg:
\* its revision, author and date from one header line, each file from a
\* changed-path line, each line of its message from a line, trimmed.
ComesFrom(cs, seg) ==
    /\ \E k \in 1..Len(seg) :
           /\ HeaderMatch(seg[k]) # Undefined
           /\ cs.revision = Some(HeaderMatch(seg[k])[1].revision)
           /\ cs.author = Some(HeaderMatch(seg[k])[1].author)
           /\ cs.date = Some(Trim(HeaderMatch(seg[k])[1].date))
    /\ \A f \in 1..Len(cs.files[1]) :
           \E k \in 1..Len(seg) : FileMatch(seg[k]) = Some(cs.files[1][f])
    /\ \A m \in 1..Len(SplitLines(cs.message[1])) :
           \E k \in 1..Len(seg) : Trim(seg[k]) = SplitLines(cs.message[1])[m]

\* C32: the buffer of parseSvnLog does not leak from one segment into the
\* next.  The changesets of the result are, in order, those of the ended
\* segments that give one when parsed alone, each equal to what its segment
\* gives alone; the revision, author, date, every file path and every
\* message line of a changeset come from lines of its own segment.
C32_NothingLeaksAcrossSegments ==
    LET emitting == SelectSeq(EndedSegments,
                              LAMBDA seg : ParsedAlone(seg, ticketId) # <<>>)
    IN  /\ Len(changesets) = Len(emitting)
        /\ \A c \in 1..Len(changesets) :
               /\ changesets[c] = ParsedAlone(emitting[c], ticketId)[1]
               /\ ComesFrom(changesets[c], emitting[c])

\* A text of two segments has ended: the first has a message line and no
\* header, the second is emitted with its own message line alone.
C32_Witness ==
    /\ pc = "done"
    /\ Len(SegmentsOf(lines)) = 2
    /\ MessageLinesOf(SegmentsOf(lines)[1]) # <<>>
    /\ ~WellFormedHeader(SegmentsOf(lines)[1])
    /\ Len(changesets) = 1
    /\ changesets[1].message = Some(MessageOf(SegmentsOf(lines)[2]))
    /\ Len(SplitLines(changesets[1].message[1])) = 1

====
